---------------------------- MODULE Spec2Model ----------------------------
(***************************************************************************)
(* Verification model of the hyperliquid-copytrader core.                  *)
(*                                                                         *)
(*   SpecGateway : HyperliquidService.placeMarketBuy / placeMarketSell,    *)
(*                 the retry loop with slippage escalation and fallback.   *)
(*   Spec        : BalanceMonitorService poll cycles of one account        *)
(*                 (timer, fetch, take-profit, drift detection,            *)
(*                 SyncService.syncFavorable / executeSyncTrade) together  *)
(*                 with the operator's pause / resume commands.            *)
(*   SpecConnector : WebSocketConnectionService, the fill stream connector *)
(*                 (connect, backoff, health monitor, first-batch discard, *)
(*                 close).  Times are in seconds.                          *)
(*   SpecControl : TelegramService pause, resume and timed pause commands  *)
(*                 with their auto-resume timers.  Times are in hours.     *)
(*   SpecTrailing : checkTakeProfitMode over successive polls of one       *)
(*                 position.                                               *)
(*   SpecCopy    : ActionCopyService.getRecommendation with the ignore     *)
(*                 list of IgnoreListService.                              *)
(*                                                                         *)
(* Numbers.  JavaScript numbers are modelled as exact fixed-point          *)
(* integers.  In the gateway part prices are in cents and sizes in         *)
(* hundredths of a coin; slippage is in tenths of a percent.  In the poll  *)
(* part prices, sizes and balances are whole units and every quotient the  *)
(* code computes is compared by cross-multiplication, so no rounding is    *)
(* introduced by the model.                                                *)
(***************************************************************************)
EXTENDS Integers, Sequences, FiniteSets, TLC

VARIABLES
    \* ---- gateway (one market order call at a time) ----
    gwPc,        \* "idle" | "attempt" | "fallback" | "done"
    gwIn,        \* arguments and service state of the current call
    gwAttempt,   \* loop variable `attempt`
    gwOrders,    \* orders handed to walletClient.order, in order of submission
    gwResps,     \* the exchange's answer to each submitted order
    gwResult,    \* "none" | "returned" | "threw"
    gwStatus,    \* status carried by the returned response
    gwError,     \* error the call threw
    gwCalls,     \* number of calls made so far
    gwFetches,   \* clearinghouseState requests made by the current call
    \* ---- exchange, as seen by one account ----
    tracked,     \* tracked wallet's open positions, coin -> position
    exUser,      \* user's open positions on the exchange, coin -> position
    trackedValue,\* tracked wallet's accountValue
    userValue,   \* user's accountValue
    now,         \* Date.now(), in hours
    \* ---- SubAccountState ----
    tradingPaused,
    pausedSymbols,          \* coin -> resume timestamp (partial map)
    drawdownPausedSymbols,  \* coin -> loss threshold percent (partial map)
    hrefThreshold,
    takeProfitThreshold,
    positionSizeMultiplier,  \* in quarters: 1 = 0.25x, 2 = 0.5x, 4 = 1x
    \* ---- SyncService / BalanceMonitorService ----
    userBalance, \* SyncService.userBalance
    interval,    \* BalanceMonitorService.interval is set
    polls,       \* number of poll() calls made so far
    cyc,         \* the poll() invocations in progress, slot -> frame
    \* ---- WebSocketConnectionService (times in seconds) ----
    eventClient,       \* this.eventClient is set
    subscription,      \* this.subscription is set
    trackedWallet,     \* this.trackedWallet is set
    isFirstSnapshot,
    reconnectAttempts,
    reconnectTimer,    \* delay of the pending reconnect timeout, 0 if none
    isReconnecting,
    healthCheckTimer,  \* the health interval is armed
    healthDue,         \* the health interval has elapsed and its callback is due
    sincePong,         \* Date.now() - lastPongReceived
    fillQueue,         \* fills handed to fillQueue.enqueueFill
    wsConnecting,      \* an initialize() awaits the subscription (or the 30 s timeout)
    wsLive,            \* the exchange delivers batches to handleFills
    wsFirstBatch,      \* the next batch is the first one of its subscription
    wsBatchLog,        \* every batch delivered so far
    wsFails,           \* connection failures since the last successful connect
    wsAlerts,          \* reconnect-exhausted alerts raised
    wsStarted,         \* the owner has called initialize()
    wsShutdown,        \* the owner has called close()
    \* ---- collaborators of the poll cycle ----
    stored,            \* the account's record in data/state.json
    snapshot,          \* what poll() last handed to the fill processor and to
                       \* TelegramService.updateSnapshot
    \* ---- TelegramService.sendDriftAlert (times in minutes) ----
    alertNow,              \* Date.now()
    lastDriftAlertTimes,   \* accountId -> time of the last alert (partial map)
    alertCalls,            \* every call of sendDriftAlert so far
    \* ---- DriftDetectorService.detect as a function ----
    detPc,             \* "ready" | "done"
    detIn,             \* arguments of the call
    detOut,            \* drifts of the returned report
    \* ---- HyperliquidService.validateOrderSize in double precision ----
    vsPc,              \* "ready" | "done"
    vsIn,              \* arguments of the call and the configured global minimum
    vsOut,             \* the size returned
    \* ---- subscriptions the connector no longer holds ----
    wsAbandoned,       \* userFills calls still pending after their initialize() timed out
    wsOrphans,         \* live subscriptions whose handle was never stored
    \* ---- TelegramService timed pause (times in hours) ----
    resumeTimers,      \* due times of the pending auto-resume timeouts, in arming order
    ctlNow,            \* Date.now()
    pausedBy,          \* what set the pause in force: "none" | "command" | "timer"
    \* ---- checkTakeProfitMode over successive polls of one position ----
    tpObserved,        \* the position's profit at each poll since the threshold was set,
                       \* in tenths of a percent of the balance
    tpClosed,          \* closePosition has been called for the position
    \* ---- ActionCopyService / IgnoreListService ----
    isFirstRun,        \* monitor.ts: the first poll has not run yet
    ignoreList,        \* IgnoreListService.ignoreList, coin -> side (partial map)
    copyTracked,       \* the tracked wallet's position per coin as last seen
    copyUser,          \* the user's position per coin
    copyLog            \* every getRecommendation call so far: change, recommendation

gwVars == <<gwPc, gwIn, gwAttempt, gwOrders, gwResps, gwResult, gwStatus, gwError, gwCalls,
           gwFetches>>

envVars == <<tracked, exUser, trackedValue, userValue, now>>

acctVars == <<tradingPaused, pausedSymbols, drawdownPausedSymbols, hrefThreshold, takeProfitThreshold,
             positionSizeMultiplier>>

pollVars == <<userBalance, interval, polls, cyc>>

wsVars == <<eventClient, subscription, trackedWallet, isFirstSnapshot, reconnectAttempts,
           reconnectTimer, isReconnecting, healthCheckTimer, healthDue, sincePong, fillQueue,
           wsConnecting, wsLive, wsFirstBatch, wsBatchLog, wsFails, wsAlerts, wsStarted,
           wsShutdown>>

storeVars == <<stored, snapshot>>

alertVars == <<alertNow, lastDriftAlertTimes, alertCalls>>

detVars == <<detPc, detIn, detOut>>

sizeVars == <<vsPc, vsIn, vsOut>>

strayVars == <<wsAbandoned, wsOrphans>>

ctlVars == <<resumeTimers, ctlNow, pausedBy>>

trailVars == <<tpObserved, tpClosed>>

copyVars == <<isFirstRun, ignoreList, copyTracked, copyUser, copyLog>>

vars == <<gwVars, envVars, acctVars, pollVars, wsVars, storeVars, alertVars, detVars, sizeVars,
         strayVars, ctlVars, trailVars, copyVars>>

-----------------------------------------------------------------------------
(* Bounds of the model *)

MaxCalls == 2
MaxPolls == 2
MaxTime == 2
\* batches the exchange delivers to the connector
MaxBatches == 3
\* health periods (15 s each) the link can stay silent
MaxSilence == 5

MaxAlertTime == 4

MaxAlertCalls == 4

\* subscriptions that may outlive the initialize() that asked for them
MaxStray == 1

\* hours of the control clock, and auto-resume timers pending at once
MaxControlTime == 6
MaxTimers == 2

\* polls that observe the position of the take-profit sequence
MaxObservations == 3

\* position changes handed to getRecommendation
MaxChanges == 3

-----------------------------------------------------------------------------
(* Gateway: constants of HyperliquidService *)

MAX_RETRIES == 3
\* slippage in tenths of a percent: 1.0 %, 0.5 %, 3 %
BASE_SLIPPAGE_PERCENT == 10
SLIPPAGE_INCREMENT == 5
MAX_SLIPPAGE_PERCENT == 30

\* input domains of a call (cents, hundredths of a coin)
FillPrices == {2050, 10000}
TickSizes == {1, 50, 100}
OrderSizes == {4, 150}
SizeDecimals == {0, 1, 2}
MinOrderValues == {0, 10}

\* answers of walletClient.order: a filled order, a status error holding
\* 'could not immediately match', any other status error, or an exception
Responses == {"filled", "nomatch", "reject", "throw"}

Pow10(n) == IF n = 0 THEN 1 ELSE IF n = 1 THEN 10 ELSE 100

\* Math.round(x / unit) * unit for x = num / den, x >= 0
RoundToUnit(num, den, unit) == ((2 * num + den * unit) \div (2 * den * unit)) * unit

getDecimalsFromTickSize(tickSize) ==
    IF tickSize >= 100 THEN 0 ELSE IF tickSize >= 10 THEN 1 ELSE 2

\* Number.toFixed(decimals) of a value in hundredths
toFixed(value, decimals) == RoundToUnit(value, 1, Pow10(2 - decimals))

\* roundToTickSize applied to price = num / 1000 cents
roundToTickSize(num, tickSize) ==
    toFixed(RoundToUnit(num, 1000, tickSize), getDecimalsFromTickSize(tickSize))

\* formatPrice(fillPrice * (1 +/- slippagePercent / 100), coin)
formatPrice(fillPrice, isBuy, slippage, tickSize) ==
    LET num == fillPrice * (IF isBuy THEN 1000 + slippage ELSE 1000 - slippage)
    IN  toFixed(roundToTickSize(num, tickSize), getDecimalsFromTickSize(tickSize))

\* validateOrderSize: the size string sent with every order of the call
validateOrderSize(size, decimals, price, minValue) ==
    LET step == Pow10(2 - decimals)
        parsedSize == toFixed(size, decimals)
        \* Math.ceil((minValue / price) / step) * step
        den == price * step
        num == minValue * 10000
        minSize == ((num + den - 1) \div den) * step
    IN  IF parsedSize * price < minValue * 10000
        THEN toFixed(minSize, decimals)
        ELSE parsedSize

SlippagePercent_Flat(attempt) == BASE_SLIPPAGE_PERCENT

\* `BASE_SLIPPAGE_PERCENT + (SLIPPAGE_INCREMENT * (attempt - 1))`, in tenths of a percent
SlippagePercent(attempt) == BASE_SLIPPAGE_PERCENT + SLIPPAGE_INCREMENT * (attempt - 1)

AttemptTif(reduceOnly) == IF reduceOnly THEN "FrontendMarket" ELSE "Ioc"

\* the order of loop iteration `attempt`
AttemptOrder(in, attempt) ==
    [ b    |-> in.isBuy,
      p    |-> formatPrice(in.fillPrice, in.isBuy, SlippagePercent(attempt), in.tickSize),
      s    |-> validateOrderSize(in.size, in.szDecimals, in.fillPrice, in.minOrderValue),
      r    |-> in.reduceOnly,
      tif  |-> AttemptTif(in.reduceOnly) ]

FallbackOrder_NoEscalation(in) ==
    [ b    |-> in.isBuy,
      p    |-> formatPrice(in.fillPrice, in.isBuy, SlippagePercent(MAX_RETRIES), in.tickSize),
      s    |-> validateOrderSize(in.size, in.szDecimals, in.fillPrice, in.minOrderValue),
      r    |-> in.reduceOnly,
      tif  |-> AttemptTif(in.reduceOnly) ]

\* the order placed in the catch block of the last iteration
FallbackOrder(in) ==
    [ b    |-> in.isBuy,
      p    |-> formatPrice(in.fillPrice, in.isBuy, MAX_SLIPPAGE_PERCENT, in.tickSize),
      s    |-> validateOrderSize(in.size, in.szDecimals, in.fillPrice, in.minOrderValue),
      r    |-> in.reduceOnly,
      tif  |-> "FrontendMarket" ]

\* `status.error...includes('could not immediately match') && attempt < MAX_RETRIES`
RetriesInPlace(resp, attempt) == resp = "nomatch" /\ attempt < MAX_RETRIES

\* `if (attempt === this.MAX_RETRIES)` of the catch block
CatchFallsBack(attempt) == attempt = MAX_RETRIES

NoCall ==
    [ isBuy |-> FALSE, reduceOnly |-> FALSE, fillPrice |-> 0, tickSize |-> 1,
      size |-> 0, szDecimals |-> 0, minOrderValue |-> 0,
      hasWallet |-> FALSE, hasMeta |-> FALSE, positionSize |-> 0 ]

CallInputs ==
    [ isBuy : BOOLEAN, reduceOnly : BOOLEAN, fillPrice : FillPrices,
      tickSize : TickSizes, size : OrderSizes, szDecimals : SizeDecimals,
      minOrderValue : MinOrderValues, hasWallet : {TRUE}, hasMeta : {TRUE},
      positionSize : {0} ]
    \cup
    [ isBuy : BOOLEAN, reduceOnly : {FALSE}, fillPrice : {10000},
      tickSize : {1}, size : {150}, szDecimals : {2},
      minOrderValue : {10}, hasWallet : BOOLEAN, hasMeta : BOOLEAN,
      positionSize : {0} ]

GwInit ==
    /\ gwPc = "idle"
    /\ gwIn = NoCall
    /\ gwAttempt = 0
    /\ gwOrders = <<>>
    /\ gwResps = <<>>
    /\ gwResult = "none"
    /\ gwStatus = "none"
    /\ gwError = "none"
    /\ gwCalls = 0
    /\ gwFetches = 0

Min(a, b) == IF a < b THEN a ELSE b

\* closePosition: `size ? Math.min(size, position.size) : position.size`
closeSize(size, position) == IF size # 0 THEN Min(size, position.size) ELSE position.size

\* sizes of the position that getOpenPositions returns (hundredths of a coin)
PositionSizes == {4, 150}

\* arguments of closePosition / reducePosition: `size` is the optional size
\* argument (0 when it is left out), positionSize is filled in once the
\* position has been fetched
CloseInputs ==
    [ isBuy : BOOLEAN, reduceOnly : {TRUE}, fillPrice : {10000},
      tickSize : {1}, size : {0} \cup OrderSizes, szDecimals : {2},
      minOrderValue : {10}, hasWallet : BOOLEAN, hasMeta : BOOLEAN,
      positionSize : {0} ]

\* placeMarketBuy / placeMarketSell up to the first walletClient.order:
\* getWalletClient, getCoinIndex and validateOrderSize run before any await
PlaceMarketOrder(in) ==
    IF ~in.hasWallet
    THEN /\ gwPc' = "done" /\ gwResult' = "threw"
         /\ gwError' = "Wallet client not initialized"
         /\ gwAttempt' = 0 /\ gwOrders' = <<>>
    ELSE IF ~in.hasMeta
    THEN /\ gwPc' = "done" /\ gwResult' = "threw"
         /\ gwError' = "Coin not found in meta cache"
         /\ gwAttempt' = 0 /\ gwOrders' = <<>>
    ELSE /\ gwPc' = "attempt" /\ gwResult' = "none" /\ gwError' = "none"
         /\ gwAttempt' = 1
         /\ gwOrders' = <<AttemptOrder(in, 1)>>

\* openLong / openShort / addToPosition, and placeMarketBuy / placeMarketSell
\* as such
GwCall ==
    /\ gwPc = "idle"
    /\ gwCalls < MaxCalls
    /\ \E in \in CallInputs :
        /\ gwIn' = in
        /\ gwCalls' = gwCalls + 1
        /\ gwResps' = <<>>
        /\ gwStatus' = "none"
        /\ PlaceMarketOrder(in)
    /\ UNCHANGED gwFetches
    /\ UNCHANGED <<envVars, acctVars, pollVars, wsVars, storeVars, alertVars, detVars, sizeVars, strayVars, ctlVars, trailVars, copyVars>>

\* closePosition / reducePosition up to `await this.getOpenPositions(...)`
GwClosePosition ==
    /\ gwPc = "idle"
    /\ gwCalls < MaxCalls
    /\ \E in \in CloseInputs : gwIn' = in
    /\ gwCalls' = gwCalls + 1
    /\ gwFetches' = 1
    /\ gwPc' = "positions"
    /\ UNCHANGED <<gwAttempt, gwOrders, gwResps, gwResult, gwStatus, gwError>>
    /\ UNCHANGED <<envVars, acctVars, pollVars, wsVars, storeVars, alertVars, detVars, sizeVars, strayVars, ctlVars, trailVars, copyVars>>

\* the positions arrive: `if (!position) throw`, else placeMarketSell / Buy
GwPositionsAnswer ==
    /\ gwPc = "positions"
    /\ \E found \in BOOLEAN :
        IF found
        THEN \E size \in PositionSizes :
                LET position == [size |-> size]
                    in == [gwIn EXCEPT !.size = closeSize(gwIn.size, position),
                                       !.positionSize = position.size]
                IN  gwIn' = in /\ PlaceMarketOrder(in)
        ELSE /\ gwPc' = "done" /\ gwResult' = "threw"
             /\ gwError' = "No open position"
             /\ UNCHANGED <<gwIn, gwAttempt, gwOrders>>
    /\ UNCHANGED <<gwResps, gwStatus, gwCalls, gwFetches>>
    /\ UNCHANGED <<envVars, acctVars, pollVars, wsVars, storeVars, alertVars, detVars, sizeVars, strayVars, ctlVars, trailVars, copyVars>>

\* the answer to the order of loop iteration gwAttempt, up to the next await
GwAttemptAnswer ==
    /\ gwPc = "attempt"
    /\ \E resp \in Responses :
        /\ gwResps' = Append(gwResps, resp)
        /\ IF resp = "filled"
           THEN \* return response
                /\ gwPc' = "done" /\ gwResult' = "returned" /\ gwStatus' = "filled"
                /\ UNCHANGED <<gwAttempt, gwOrders, gwError>>
           ELSE IF resp # "throw" /\ RetriesInPlace(resp, gwAttempt)
           THEN \* sleep(100); continue
                /\ gwAttempt' = gwAttempt + 1
                /\ gwOrders' = Append(gwOrders, AttemptOrder(gwIn, gwAttempt + 1))
                /\ UNCHANGED <<gwPc, gwResult, gwStatus, gwError>>
           ELSE IF CatchFallsBack(gwAttempt)
           THEN \* throw new Error(status.error) or a thrown order(), caught
                /\ gwPc' = "fallback"
                /\ gwOrders' = Append(gwOrders, FallbackOrder(gwIn))
                /\ UNCHANGED <<gwAttempt, gwResult, gwStatus, gwError>>
           ELSE \* throw error
                /\ gwPc' = "done" /\ gwResult' = "threw" /\ gwError' = resp
                /\ UNCHANGED <<gwAttempt, gwOrders, gwStatus>>
    /\ UNCHANGED <<gwIn, gwCalls, gwFetches>>
    /\ UNCHANGED <<envVars, acctVars, pollVars, wsVars, storeVars, alertVars, detVars, sizeVars, strayVars, ctlVars, trailVars, copyVars>>

\* `return await walletClient.order(fallbackParams)`
GwFallbackAnswer ==
    /\ gwPc = "fallback"
    /\ \E resp \in Responses :
        /\ gwResps' = Append(gwResps, resp)
        /\ gwPc' = "done"
        /\ IF resp = "throw"
           THEN gwResult' = "threw" /\ gwError' = resp /\ UNCHANGED gwStatus
           ELSE gwResult' = "returned" /\ gwStatus' = resp /\ UNCHANGED gwError
    /\ UNCHANGED <<gwIn, gwAttempt, gwOrders, gwCalls, gwFetches>>
    /\ UNCHANGED <<envVars, acctVars, pollVars, wsVars, storeVars, alertVars, detVars, sizeVars, strayVars, ctlVars, trailVars, copyVars>>

\* the caller takes the result; the service is ready for the next call
GwNext ==
    /\ gwPc = "done"
    /\ gwPc' = "idle"
    /\ gwIn' = NoCall
    /\ gwAttempt' = 0
    /\ gwOrders' = <<>>
    /\ gwResps' = <<>>
    /\ gwResult' = "none"
    /\ gwStatus' = "none"
    /\ gwError' = "none"
    /\ gwFetches' = 0
    /\ UNCHANGED gwCalls
    /\ UNCHANGED <<envVars, acctVars, pollVars, wsVars, storeVars, alertVars, detVars, sizeVars, strayVars, ctlVars, trailVars, copyVars>>

-----------------------------------------------------------------------------
(* Positions and the exchange *)

Coins == {"BTC", "ETH"}

\* order in which the exchange lists asset positions
CoinOrder == <<"BTC", "ETH">>

NoPos == [side |-> "none", size |-> 0, entryPrice |-> 0, markPrice |-> 0]

Position(side, size, entryPrice, markPrice) ==
    [side |-> side, size |-> size, entryPrice |-> entryPrice, markPrice |-> markPrice]

HasPos(p) == p.side # "none"

\* Position.notionalValue = Math.abs(size) * markPrice
notionalValue(p) == p.size * p.markPrice

\* Position.unrealizedPnl as the exchange reports it
unrealizedPnl(p) ==
    IF p.side = "long" THEN (p.markPrice - p.entryPrice) * p.size
    ELSE IF p.side = "short" THEN (p.entryPrice - p.markPrice) * p.size
    ELSE 0


Abs(x) == IF x < 0 THEN 0 - x ELSE x

\* effect of a filled order that is not reduce-only (openLong, openShort,
\* addToPosition): the exchange nets it against the position held
ApplyOpen(ex, coin, side, size, price) ==
    LET p == ex[coin]
        old == IF p.side = "long" THEN p.size ELSE IF p.side = "short" THEN 0 - p.size ELSE 0
        new == IF side = "long" THEN old + size ELSE old - size
        newSide == IF new > 0 THEN "long" ELSE "short"
    IN  IF new = 0 THEN [ex EXCEPT ![coin] = NoPos]
        ELSE IF p.side = newSide
        THEN [ex EXCEPT ![coin] = [p EXCEPT !.size = Abs(new)]]
        ELSE [ex EXCEPT ![coin] = Position(newSide, Abs(new), price, price)]

\* effect of a filled reduce-only order of closePosition / reducePosition
ApplyClose(ex, coin, size) ==
    LET p == ex[coin]
        left == p.size - closeSize(size, p)
    IN  IF left = 0 THEN [ex EXCEPT ![coin] = NoPos]
        ELSE [ex EXCEPT ![coin] = [p EXCEPT !.size = left]]

-----------------------------------------------------------------------------
(* DriftDetectorService *)

\* `if (tracked.notionalValue < 10) continue`
MinTrackedNotional == 10

\* constructor(private driftThresholdPercent: number)
driftThresholdPercent == 1

ScaledTargetSize_Unscaled(t, tBal, uBal) == t.size

\* (trackedAllocationPct / 100) * userBalance / tracked.markPrice
ScaledTargetSize(t, tBal, uBal) == (notionalValue(t) * uBal) \div (tBal * t.markPrice)

checkOpenFavorability_Strict(side, currentPrice, entryPrice) ==
    IF side = "long" THEN currentPrice < entryPrice ELSE currentPrice > entryPrice

checkOpenFavorability(side, currentPrice, entryPrice) ==
    IF side = "long" THEN currentPrice <= entryPrice ELSE currentPrice >= entryPrice

\* userAllocationPct < trackedAllocationPct, cross-multiplied
UnderAllocated(t, u, tBal, uBal) == notionalValue(u) * tBal < notionalValue(t) * uBal

checkSizeDriftFavorability(t, u, tBal, uBal) ==
    IF UnderAllocated(t, u, tBal, uBal)
    THEN IF t.side = "long" THEN t.markPrice <= t.entryPrice ELSE t.markPrice >= t.entryPrice
    ELSE IF u.side = "long" THEN u.markPrice > u.entryPrice ELSE u.markPrice < u.entryPrice

SizeDriftExceeds_AtThreshold(t, u, tBal, uBal) ==
    Abs(notionalValue(t) * uBal - notionalValue(u) * tBal) * 100
        >= driftThresholdPercent * tBal * uBal

\* Math.abs(trackedAllocationPct - userAllocationPct) > driftThresholdPercent
SizeDriftExceeds(t, u, tBal, uBal) ==
    Abs(notionalValue(t) * uBal - notionalValue(u) * tBal) * 100
        > driftThresholdPercent * tBal * uBal

Drift(coin, driftType, isFavorable, scaledTargetSize, t, u) ==
    [ coin |-> coin, driftType |-> driftType, isFavorable |-> isFavorable,
      scaledTargetSize |-> scaledTargetSize, trackedPosition |-> t, userPosition |-> u ]

TrackedDrift_NoDustSkip(coin, T, U, tBal, uBal) ==
    LET t == T[coin]
        u == U[coin]
        target == ScaledTargetSize(t, tBal, uBal)
    IN  IF ~HasPos(t) THEN <<>>
        ELSE IF ~HasPos(u)
        THEN <<Drift(coin, "missing",
                     checkOpenFavorability(t.side, t.markPrice, t.entryPrice), target, t, NoPos)>>
        ELSE IF u.side # t.side
        THEN <<Drift(coin, "side_mismatch",
                     checkOpenFavorability(t.side, t.markPrice, t.entryPrice), target, t, u)>>
        ELSE IF SizeDriftExceeds(t, u, tBal, uBal)
        THEN <<Drift(coin, "size_mismatch",
                     checkSizeDriftFavorability(t, u, tBal, uBal), target, t, u)>>
        ELSE <<>>

\* body of the loop over trackedPositions, for one coin
TrackedDrift(coin, T, U, tBal, uBal) ==
    LET t == T[coin]
        u == U[coin]
        target == ScaledTargetSize(t, tBal, uBal)
    IN  IF ~HasPos(t) \/ notionalValue(t) < MinTrackedNotional THEN <<>>
        ELSE IF ~HasPos(u)
        THEN <<Drift(coin, "missing",
                     checkOpenFavorability(t.side, t.markPrice, t.entryPrice), target, t, NoPos)>>
        ELSE IF u.side # t.side
        THEN <<Drift(coin, "side_mismatch",
                     checkOpenFavorability(t.side, t.markPrice, t.entryPrice), target, t, u)>>
        ELSE IF SizeDriftExceeds(t, u, tBal, uBal)
        THEN <<Drift(coin, "size_mismatch",
                     checkSizeDriftFavorability(t, u, tBal, uBal), target, t, u)>>
        ELSE <<>>

ExtraDrift_DustFiltered(coin, T, U) ==
    IF HasPos(U[coin]) /\ ~HasPos(T[coin]) /\ notionalValue(U[coin]) >= MinTrackedNotional
    THEN <<Drift(coin, "extra", TRUE, 0, NoPos, U[coin])>>
    ELSE <<>>

\* body of the loop over userPositions, for one coin
ExtraDrift(coin, T, U) ==
    IF HasPos(U[coin]) /\ ~HasPos(T[coin])
    THEN <<Drift(coin, "extra", TRUE, 0, NoPos, U[coin])>>
    ELSE <<>>

\* detect(trackedPositions, userPositions, trackedBalance, userBalance).drifts
detect(T, U, tBal, uBal) ==
    LET td[i \in 0..Len(CoinOrder)] ==
            IF i = 0 THEN <<>>
            ELSE td[i - 1] \o TrackedDrift(CoinOrder[i], T, U, tBal, uBal)
        ed[i \in 0..Len(CoinOrder)] ==
            IF i = 0 THEN <<>>
            ELSE ed[i - 1] \o ExtraDrift(CoinOrder[i], T, U)
    IN  td[Len(CoinOrder)] \o ed[Len(CoinOrder)]

-----------------------------------------------------------------------------
(* SubAccountState maps *)

EmptyMap == [k \in {} |-> 0]

\* Map.get, with undefined read as 0 (both are falsy)
MapGet(m, k) == IF k \in DOMAIN m THEN m[k] ELSE 0

MapDelete(m, ks) == [k \in (DOMAIN m) \ ks |-> m[k]]

-----------------------------------------------------------------------------
(* SyncService *)

MIN_BALANCE_TO_TRADE == 10

SyncSkips_PausedOnly(paused, balance) == paused

\* the two early returns of syncFavorable
SyncSkips(paused, balance) == paused \/ balance < MIN_BALANCE_TO_TRADE

IsEntryDrift(d) ==
    \/ d.driftType \in {"missing", "side_mismatch"}
    \/ /\ d.driftType = "size_mismatch"
       /\ HasPos(d.userPosition) /\ HasPos(d.trackedPosition)
       /\ d.userPosition.size < d.scaledTargetSize

PassesPauses_NoDrawdown(d, dd, ps, t) ==
    /\ d.isFavorable
    /\ ~(MapGet(ps, d.coin) # 0 /\ t < MapGet(ps, d.coin))

\* the drift reaches `const pausedUntil = ...` and is not held back by a pause
PassesPauses(d, dd, ps, t) ==
    /\ d.isFavorable
    /\ d.coin \notin DOMAIN dd
    /\ ~(MapGet(ps, d.coin) # 0 /\ t < MapGet(ps, d.coin))

\* (unrealizedPnl / trackedBalance) * 100 >= -hrefThreshold
HrefHolds(d, href, tBal) ==
    /\ href > 0 /\ IsEntryDrift(d) /\ HasPos(d.trackedPosition)
    /\ unrealizedPnl(d.trackedPosition) * 100 >= (0 - href) * tBal

\* the filter callback of syncFavorable
PassesFilter(d, dd, ps, href, tBal, t) ==
    PassesPauses(d, dd, ps, t) /\ ~HrefHolds(d, href, tBal)

favorableDrifts(drifts, dd, ps, href, tBal, t) ==
    SelectSeq(drifts, LAMBDA d : PassesFilter(d, dd, ps, href, tBal, t))

ExpiredOnRead_Keep(drifts, dd, ps, t) == {}

\* `if (pausedUntil) this.accountState.pausedSymbols.delete(d.coin)`
ExpiredOnRead(drifts, dd, ps, t) ==
    { drifts[i].coin : i \in { j \in 1..Len(drifts) :
          PassesPauses(drifts[j], dd, ps, t) /\ MapGet(ps, drifts[j].coin) # 0 } }

Order(src, why, coin, op, side, size, price) ==
    [ src |-> src, why |-> why, coin |-> coin, op |-> op, side |-> side,
      size |-> size, price |-> price, res |-> "pending", rec |-> "none" ]

SyncOrder_Swapped(d) ==
    IF d.driftType = "missing"
    THEN Order("sync", d.driftType, d.coin, "open", d.trackedPosition.side,
               d.scaledTargetSize, d.trackedPosition.markPrice)
    ELSE IF d.driftType = "extra"
    THEN Order("sync", d.driftType, d.coin, "close", "none", 0, d.userPosition.markPrice)
    ELSE IF d.driftType = "size_mismatch"
    THEN IF d.userPosition.size < d.scaledTargetSize
         THEN Order("sync", d.driftType, d.coin, "reduce", d.trackedPosition.side,
                    Abs(d.scaledTargetSize - d.userPosition.size), d.trackedPosition.markPrice)
         ELSE Order("sync", d.driftType, d.coin, "add", d.trackedPosition.side,
                    Abs(d.scaledTargetSize - d.userPosition.size), d.trackedPosition.markPrice)
    ELSE Order("sync", d.driftType, d.coin, "close", "none", 0, d.trackedPosition.markPrice)

\* executeSyncTrade: the first gateway call made for a drift
SyncOrder(d) ==
    IF d.driftType = "missing"
    THEN Order("sync", d.driftType, d.coin, "open", d.trackedPosition.side,
               d.scaledTargetSize, d.trackedPosition.markPrice)
    ELSE IF d.driftType = "extra"
    THEN Order("sync", d.driftType, d.coin, "close", "none", 0, d.userPosition.markPrice)
    ELSE IF d.driftType = "size_mismatch"
    THEN IF d.userPosition.size < d.scaledTargetSize
         THEN Order("sync", d.driftType, d.coin, "add", d.trackedPosition.side,
                    Abs(d.scaledTargetSize - d.userPosition.size), d.trackedPosition.markPrice)
         ELSE Order("sync", d.driftType, d.coin, "reduce", d.trackedPosition.side,
                    Abs(d.scaledTargetSize - d.userPosition.size), d.trackedPosition.markPrice)
    ELSE Order("sync", d.driftType, d.coin, "close", "none", 0, d.trackedPosition.markPrice)

\* executeSyncTrade, side_mismatch: the open that follows the close
ReverseOpenOrder(d) ==
    Order("sync", d.driftType, d.coin, "open", d.trackedPosition.side,
          d.scaledTargetSize, d.trackedPosition.markPrice)

NextDriftAfterCatch_Abort(idx, n) == n + 1

\* `catch (error) { console.error(...) }` inside the for loop: the loop goes on
NextDriftAfterCatch(idx, n) == idx + 1

-----------------------------------------------------------------------------
(* Gateway calls as the poll cycle sees them *)

\* closePosition throws 'No open position' when the live position is gone.
\* Otherwise a call returns after a fill ("filled"), throws ("threw"), or
\* returns the response of a fallback order that the exchange rejected
\* ("rejected": `return await walletClient.order(fallbackParams)`).
GatewayOutcomes(ex, o) ==
    IF o.op \in {"close", "reduce"} /\ ~HasPos(ex[o.coin])
    THEN {"threw"}
    ELSE {"filled", "rejected", "threw"}

ApplyFill(ex, o) ==
    IF o.op \in {"open", "add"}
    THEN ApplyOpen(ex, o.coin, o.side, o.size, o.price)
    ELSE ApplyClose(ex, o.coin, o.size)

SetLast(log, res) == [log EXCEPT ![Len(log)].res = res]

\* loggerService.logTrade({ action, ... }): `rec` of an order is the action
\* of the trade record written for it, "none" while there is no record; the
\* record of a reversal stands for its last n = 2 orders
logTrade(log, action, n) ==
    [i \in 1..Len(log) |-> IF i > Len(log) - n THEN [log[i] EXCEPT !.rec = action] ELSE log[i]]

\* executeSyncTrade after its last gateway call returned: the one logTrade
\* call of the branch
SyncLogged(log, d) ==
    IF d.driftType = "side_mismatch"
    THEN logTrade(log, "reverse", 2)
    ELSE logTrade(log, log[Len(log)].op, 1)

-----------------------------------------------------------------------------
(* BalanceMonitorService *)

\* poll() invocations that can be in progress at once in the model
Slots == {1, 2}

IdleFrame ==
    [ pc |-> "idle", snap |-> [c \in Coins |-> NoPos], fav |-> <<>>,
      idx |-> 0, tp |-> 0, log |-> <<>>, note |-> "none" ]

FreeSlots == {c \in Slots : cyc[c].pc \in {"idle", "done"}}

Active(f) == f.pc \notin {"idle", "done"}

\* a gateway call (openLong, closePosition, ...) is awaited
InFlight(f) == f.pc \in {"tp", "sync"}

\* `!state?.takeProfitThreshold || state.takeProfitThreshold <= 0` is false
TakeProfitActive(threshold) == threshold > 0

TakeProfitHit_AtThreshold(pos, uBal, threshold) ==
    unrealizedPnl(pos) * 100 >= threshold * uBal

\* (pos.unrealizedPnl / userBalance) * 100 > threshold
TakeProfitHit(pos, uBal, threshold) == unrealizedPnl(pos) * 100 > threshold * uBal

\* next position of the loop in checkTakeProfitMode that is closed, 0 if none
NextTp(snap, from, uBal, threshold) ==
    LET hits == { i \in (from + 1)..Len(CoinOrder) :
                    HasPos(snap[CoinOrder[i]]) /\ TakeProfitHit(snap[CoinOrder[i]], uBal, threshold) }
    IN  IF hits = {} THEN 0 ELSE CHOOSE i \in hits : \A j \in hits : i <= j

TpOrder(pos, coin) == Order("tp", "take-profit", coin, "close", "none", 0, pos.markPrice)

\* poll() after checkTakeProfitMode: detect, then sendDriftAlert is awaited
AfterTakeProfit(f) ==
    IF detect(tracked, f.snap, trackedValue, userValue) = <<>>
    THEN [f EXCEPT !.pc = "done", !.note = "nodrift"]
    ELSE [f EXCEPT !.pc = "alert"]

\* the loop of checkTakeProfitMode, from position `from` to its next await
TakeProfitFrom(f, from) ==
    LET i == NextTp(f.snap, from, userValue, takeProfitThreshold)
    IN  IF i = 0 THEN AfterTakeProfit(f)
        ELSE [f EXCEPT !.pc = "tp", !.tp = i,
                       !.log = Append(@, TpOrder(f.snap[CoinOrder[i]], CoinOrder[i]))]

\* the for loop of syncFavorable, from drift `idx` to its next await
SyncFrom(f, idx) ==
    IF idx > Len(f.fav)
    THEN [f EXCEPT !.pc = "done", !.note = "synced"]
    ELSE [f EXCEPT !.pc = "sync", !.idx = idx, !.log = Append(@, SyncOrder(f.fav[idx]))]

BeginPoll ==
    /\ FreeSlots # {}
    /\ polls < MaxPolls
    /\ polls' = polls + 1
    /\ LET c == CHOOSE x \in FreeSlots : \A y \in FreeSlots : x <= y
       IN  cyc' = [cyc EXCEPT ![c] = [IdleFrame EXCEPT !.pc = "fetch"]]

\* start(): the first poll() and setInterval
Start ==
    /\ ~interval
    /\ interval' = TRUE
    /\ BeginPoll
    /\ UNCHANGED <<userBalance, envVars, acctVars>>
    /\ UNCHANGED <<gwVars, wsVars, storeVars, alertVars, detVars, sizeVars, strayVars, ctlVars, trailVars, copyVars>>

\* the interval fires: `() => this.poll()`.  Nothing in start() or poll()
\* looks at a poll in progress, and a poll's awaits (30 s HTTP timeout, three
\* tries per fetch, up to four orders per gateway call) can outlast 60 s.
TimerTick ==
    /\ interval
    /\ BeginPoll
    /\ UNCHANGED <<interval, userBalance, envVars, acctVars>>
    /\ UNCHANGED <<gwVars, wsVars, storeVars, alertVars, detVars, sizeVars, strayVars, ctlVars, trailVars, copyVars>>

\* nothing handed over yet
NoSnapshot ==
    [ taken |-> FALSE, trackedValue |-> 0, userValue |-> 0,
      trackedPositions |-> [c \in Coins |-> NoPos], userPositions |-> [c \in Coins |-> NoPos] ]

\* the MonitorSnapshot built from the four results
SnapshotOf(tBal, T, uBal, U) ==
    [ taken |-> TRUE, trackedValue |-> tBal, userValue |-> uBal,
      trackedPositions |-> T, userPositions |-> U ]

PublishFetched_Always(ok, prev, fetched) == fetched

\* the setters follow `await Promise.all([...])`: they run when all four
\* fetches resolved and not at all when one rejected
PublishFetched(ok, prev, fetched) == IF ok THEN fetched ELSE prev

\* the four fetches resolve; setters, logSnapshot, updateSnapshot, and
\* checkRisks is awaited
FetchDone(c) ==
    /\ cyc[c].pc = "fetch"
    /\ cyc' = [cyc EXCEPT ![c] = [@ EXCEPT !.pc = "risk", !.snap = exUser]]
    /\ userBalance' = PublishFetched(TRUE, userBalance, userValue)
    /\ snapshot' = PublishFetched(TRUE, snapshot,
                                  SnapshotOf(trackedValue, tracked, userValue, exUser))
    /\ UNCHANGED <<interval, polls, envVars, acctVars>>
    /\ UNCHANGED stored
    /\ UNCHANGED <<gwVars, wsVars, alertVars, detVars, sizeVars, strayVars, ctlVars, trailVars, copyVars>>

\* an awaited fetch, checkRisks or sendDriftAlert rejects: poll()'s catch
PollFails(c) ==
    /\ cyc[c].pc \in {"fetch", "risk", "alert"}
    /\ cyc' = [cyc EXCEPT ![c] = [@ EXCEPT !.pc = "done", !.note = "error"]]
    /\ userBalance' = PublishFetched(FALSE, userBalance, userValue)
    /\ snapshot' = PublishFetched(FALSE, snapshot,
                                  SnapshotOf(trackedValue, tracked, userValue, exUser))
    /\ UNCHANGED <<interval, polls, envVars, acctVars>>
    /\ UNCHANGED stored
    /\ UNCHANGED <<gwVars, wsVars, alertVars, detVars, sizeVars, strayVars, ctlVars, trailVars, copyVars>>

\* checkRisks resolves; checkTakeProfitMode runs to its first await
RiskDone(c) ==
    /\ cyc[c].pc = "risk"
    /\ cyc' = [cyc EXCEPT ![c] =
                 IF TakeProfitActive(takeProfitThreshold)
                 THEN TakeProfitFrom(@, 0)
                 ELSE AfterTakeProfit(@)]
    /\ UNCHANGED <<userBalance, interval, polls, envVars, acctVars>>
    /\ UNCHANGED <<gwVars, wsVars, storeVars, alertVars, detVars, sizeVars, strayVars, ctlVars, trailVars, copyVars>>

\* closePosition of checkTakeProfitMode settles; the loop goes on
TpAnswer(c) ==
    /\ cyc[c].pc = "tp"
    /\ LET f == cyc[c]
           o == f.log[Len(f.log)]
       IN  \E res \in GatewayOutcomes(exUser, o) :
             /\ exUser' = IF res = "filled" THEN ApplyFill(exUser, o) ELSE exUser
             /\ cyc' = [cyc EXCEPT ![c] =
                          TakeProfitFrom([f EXCEPT !.log =
                                            IF res = "threw" THEN SetLast(@, res)
                                            ELSE logTrade(SetLast(@, res), "close", 1)],
                                         f.tp)]
    /\ UNCHANGED <<tracked, trackedValue, userValue, now>>
    /\ UNCHANGED <<userBalance, interval, polls, acctVars>>
    /\ UNCHANGED <<gwVars, wsVars, storeVars, alertVars, detVars, sizeVars, strayVars, ctlVars, trailVars, copyVars>>

\* sendDriftAlert resolves; syncFavorable runs to its first await
AlertDone(c) ==
    /\ cyc[c].pc = "alert"
    /\ LET f == cyc[c]
           drifts == detect(tracked, f.snap, trackedValue, userValue)
           favs == favorableDrifts(drifts, drawdownPausedSymbols, pausedSymbols,
                                   hrefThreshold, trackedValue, now)
       IN  IF SyncSkips(tradingPaused, userBalance)
           THEN /\ cyc' = [cyc EXCEPT ![c] =
                             [f EXCEPT !.pc = "done",
                                       !.note = IF tradingPaused THEN "paused" ELSE "lowbalance"]]
                /\ UNCHANGED pausedSymbols
           ELSE /\ pausedSymbols' =
                      MapDelete(pausedSymbols,
                                ExpiredOnRead(drifts, drawdownPausedSymbols, pausedSymbols, now))
                /\ cyc' = [cyc EXCEPT ![c] =
                             IF favs = <<>>
                             THEN [f EXCEPT !.pc = "done", !.note = "nofavorable"]
                             ELSE SyncFrom([f EXCEPT !.fav = favs], 1)]
    /\ UNCHANGED <<tradingPaused, drawdownPausedSymbols, hrefThreshold, takeProfitThreshold,
                   positionSizeMultiplier>>
    /\ UNCHANGED <<userBalance, interval, polls, envVars>>
    /\ UNCHANGED <<gwVars, wsVars, storeVars, alertVars, detVars, sizeVars, strayVars, ctlVars, trailVars, copyVars>>

\* the gateway call awaited by executeSyncTrade settles
SyncAnswer(c) ==
    /\ cyc[c].pc = "sync"
    /\ LET f == cyc[c]
           o == f.log[Len(f.log)]
           d == f.fav[f.idx]
       IN  \E res \in GatewayOutcomes(exUser, o) :
             /\ exUser' = IF res = "filled" THEN ApplyFill(exUser, o) ELSE exUser
             /\ cyc' = [cyc EXCEPT ![c] =
                          LET g == [f EXCEPT !.log = SetLast(@, res)]
                          IN  IF res = "threw"
                              THEN SyncFrom(g, NextDriftAfterCatch(f.idx, Len(f.fav)))
                              ELSE IF d.driftType = "side_mismatch" /\ o.op = "close"
                              THEN [g EXCEPT !.log = Append(@, ReverseOpenOrder(d))]
                              ELSE SyncFrom([g EXCEPT !.log = SyncLogged(@, d)], f.idx + 1)]
    /\ UNCHANGED <<tracked, trackedValue, userValue, now>>
    /\ UNCHANGED <<userBalance, interval, polls, acctVars>>
    /\ UNCHANGED <<gwVars, wsVars, storeVars, alertVars, detVars, sizeVars, strayVars, ctlVars, trailVars, copyVars>>

\* TelegramService.setAccountTradingPaused
\* saveState: the fields written to data/state.json
StoredOf(paused, href, ps, dd, mult) ==
    [ tradingPaused |-> paused, hrefThreshold |-> href,
      pausedSymbols |-> ps, drawdownPausedSymbols |-> dd,
      positionSizeMultiplier |-> mult ]

SetTradingPaused(paused) ==
    /\ tradingPaused # paused \/ (paused /\ pausedBy = "timer")
    /\ tradingPaused' = paused
    /\ pausedBy' = IF paused THEN "command" ELSE "none"
    /\ UNCHANGED <<resumeTimers, ctlNow>>
    /\ stored' = StoredOf(paused, hrefThreshold, pausedSymbols, drawdownPausedSymbols,
                          positionSizeMultiplier)
    /\ UNCHANGED <<pausedSymbols, drawdownPausedSymbols, hrefThreshold, takeProfitThreshold,
                   positionSizeMultiplier>>
    /\ UNCHANGED <<pollVars, envVars>>
    /\ UNCHANGED snapshot
    /\ UNCHANGED <<gwVars, wsVars, alertVars, detVars, sizeVars, strayVars, trailVars, copyVars>>

\* time passes
ClockTick ==
    /\ now < MaxTime
    /\ now' = now + 1
    /\ UNCHANGED <<tracked, exUser, trackedValue, userValue>>
    /\ UNCHANGED <<pollVars, acctVars>>
    /\ UNCHANGED <<gwVars, wsVars, storeVars, alertVars, detVars, sizeVars, strayVars, ctlVars, trailVars, copyVars>>

-----------------------------------------------------------------------------
(* WebSocketConnectionService *)

MAX_RECONNECT_ATTEMPTS == 10
\* seconds
PONG_TIMEOUT == 45
HealthPeriod == 15

\* const delays = [5000, 10000, 30000, 60000, 300000], in seconds
delays == <<5, 10, 30, 60, 300>>

ReconnectDelay_OffByOne(attempts) == delays[Min(attempts, Len(delays) - 1) + 1]

\* delays[Math.min(this.reconnectAttempts - 1, delays.length - 1)]
ReconnectDelay(attempts) == delays[Min(attempts - 1, Len(delays) - 1) + 1]

ReconnectExhausted_Late(attempts) == attempts > MAX_RECONNECT_ATTEMPTS

\* `this.reconnectAttempts >= this.MAX_RECONNECT_ATTEMPTS`
ReconnectExhausted(attempts) == attempts >= MAX_RECONNECT_ATTEMPTS

PongStale_Lenient(timeSincePong) == timeSincePong > PONG_TIMEOUT + HealthPeriod

\* `timeSincePong > this.PONG_TIMEOUT`
PongStale(timeSincePong) == timeSincePong > PONG_TIMEOUT

DiscardsBatch_FirstOnly(isSnapshot, first) == isSnapshot /\ first

\* handleFills: `if (data.isSnapshot) { ... return }`
DiscardsBatch(isSnapshot, first) == isSnapshot

WsInit ==
    /\ eventClient = FALSE
    /\ subscription = FALSE
    /\ trackedWallet = FALSE
    /\ isFirstSnapshot = TRUE
    /\ reconnectAttempts = 0
    /\ reconnectTimer = 0
    /\ isReconnecting = FALSE
    /\ healthCheckTimer = FALSE
    /\ healthDue = FALSE
    /\ sincePong = 0
    /\ fillQueue = <<>>
    /\ wsConnecting = FALSE
    /\ wsLive = FALSE
    /\ wsFirstBatch = FALSE
    /\ wsBatchLog = <<>>
    /\ wsFails = 0
    /\ wsAlerts = 0
    /\ wsStarted = FALSE
    /\ wsShutdown = FALSE
    /\ wsAbandoned = 0
    /\ wsOrphans = 0

PollIdle ==
    UNCHANGED <<gwVars, envVars, acctVars, pollVars, storeVars, alertVars, detVars, sizeVars,
                ctlVars, trailVars, copyVars>>

\* close(): both timers cleared, the subscription unsubscribed, the clients
\* dropped.  An initialize() that is awaiting its subscription is not touched.
CloseConnection ==
    /\ reconnectTimer' = 0
    /\ healthCheckTimer' = FALSE
    /\ healthDue' = FALSE
    /\ subscription' = FALSE
    /\ wsLive' = (wsLive /\ ~subscription)
    /\ isReconnecting' = FALSE

\* `await this.close(); await this.initialize(savedWallet)` up to the await of
\* the subscription: eventClient is null after close(), so initialize() goes on
CloseThenInitialize ==
    /\ CloseConnection
    /\ eventClient' = TRUE
    /\ wsConnecting' = TRUE
    /\ trackedWallet' = TRUE

\* the owner's initialize(trackedWallet) at startup
WsInitialize ==
    /\ ~wsStarted
    /\ wsStarted' = TRUE
    /\ IF eventClient /\ ~isReconnecting
       THEN UNCHANGED <<eventClient, wsConnecting, trackedWallet>>
       ELSE eventClient' = TRUE /\ wsConnecting' = TRUE /\ trackedWallet' = TRUE
    /\ UNCHANGED <<subscription, isFirstSnapshot, reconnectAttempts, reconnectTimer,
                   isReconnecting, healthCheckTimer, healthDue, sincePong, fillQueue,
                   wsLive, wsFirstBatch, wsBatchLog, wsFails, wsAlerts, wsShutdown>>
    /\ UNCHANGED strayVars
    /\ PollIdle

\* initialize() after the subscription resolved: counters reset, health
\* monitor started
WsConnectOk ==
    /\ wsConnecting
    /\ wsConnecting' = FALSE
    /\ subscription' = TRUE
    /\ wsLive' = TRUE
    /\ wsFirstBatch' = TRUE
    /\ sincePong' = 0
    /\ reconnectAttempts' = 0
    /\ wsFails' = 0
    /\ isReconnecting' = FALSE
    /\ reconnectTimer' = 0
    /\ healthCheckTimer' = TRUE
    /\ healthDue' = FALSE
    /\ UNCHANGED <<eventClient, trackedWallet, isFirstSnapshot, fillQueue, wsBatchLog,
                   wsAlerts, wsStarted, wsShutdown>>
    /\ UNCHANGED strayVars
    /\ PollIdle

\* initialize() in its catch block (connection error or the 30 s timeout):
\* clients dropped, scheduleReconnect()
WsConnectFail ==
    /\ wsConnecting
    /\ wsConnecting' = FALSE
    /\ eventClient' = FALSE
    /\ subscription' = FALSE
    /\ reconnectAttempts' = reconnectAttempts + 1
    /\ reconnectTimer' = ReconnectDelay(reconnectAttempts + 1)
    /\ wsFails' = wsFails + 1
    /\ isReconnecting' = FALSE
    /\ UNCHANGED <<trackedWallet, isFirstSnapshot, healthCheckTimer, healthDue, sincePong,
                   fillQueue, wsLive, wsFirstBatch, wsBatchLog, wsAlerts, wsStarted,
                   wsShutdown>>
    \* when the 30 s timeout won the race, the userFills call is still pending
    /\ \E timedOut \in {FALSE} \cup (IF wsAbandoned + wsOrphans < MaxStray THEN {TRUE} ELSE {}) :
          wsAbandoned' = wsAbandoned + (IF timedOut THEN 1 ELSE 0)
    /\ UNCHANGED wsOrphans
    /\ PollIdle

\* a userFills call that lost the race against the timeout settles: nothing
\* awaits it any more, so a subscription it returns is stored nowhere and is
\* never unsubscribed; its callback is handleFills
WsLateAnswer ==
    /\ wsAbandoned > 0
    /\ \E subscribed \in BOOLEAN :
          wsOrphans' = wsOrphans + (IF subscribed THEN 1 ELSE 0)
    /\ wsAbandoned' = wsAbandoned - 1
    /\ UNCHANGED wsVars
    /\ PollIdle

\* the reconnect timeout fires: reconnect()
WsReconnect ==
    /\ reconnectTimer # 0
    /\ IF ~trackedWallet
       THEN /\ reconnectTimer' = 0
            /\ UNCHANGED <<eventClient, subscription, trackedWallet, isReconnecting,
                           healthCheckTimer, healthDue, wsConnecting, wsLive, wsAlerts>>
       ELSE IF ReconnectExhausted(reconnectAttempts)
       THEN /\ reconnectTimer' = 0
            /\ wsAlerts' = wsAlerts + 1
            /\ UNCHANGED <<eventClient, subscription, trackedWallet, isReconnecting,
                           healthCheckTimer, healthDue, wsConnecting, wsLive>>
       ELSE /\ CloseThenInitialize
            /\ UNCHANGED wsAlerts
    /\ UNCHANGED <<isFirstSnapshot, reconnectAttempts, sincePong, fillQueue, wsFirstBatch,
                   wsBatchLog, wsFails, wsStarted, wsShutdown>>
    /\ UNCHANGED strayVars
    /\ PollIdle

\* 15 s pass while the health interval is armed
WsTick ==
    /\ healthCheckTimer
    /\ ~healthDue
    /\ sincePong < MaxSilence * HealthPeriod
    /\ sincePong' = sincePong + HealthPeriod
    /\ healthDue' = TRUE
    /\ UNCHANGED <<eventClient, subscription, trackedWallet, isFirstSnapshot,
                   reconnectAttempts, reconnectTimer, isReconnecting, healthCheckTimer,
                   fillQueue, wsConnecting, wsLive, wsFirstBatch, wsBatchLog, wsFails,
                   wsAlerts, wsStarted, wsShutdown>>
    /\ UNCHANGED strayVars
    /\ PollIdle

\* the socket's 'pong' listener
WsPong ==
    /\ wsLive
    /\ sincePong # 0
    /\ sincePong' = 0
    /\ UNCHANGED <<eventClient, subscription, trackedWallet, isFirstSnapshot,
                   reconnectAttempts, reconnectTimer, isReconnecting, healthCheckTimer,
                   healthDue, fillQueue, wsConnecting, wsLive, wsFirstBatch, wsBatchLog,
                   wsFails, wsAlerts, wsStarted, wsShutdown>>
    /\ UNCHANGED strayVars
    /\ PollIdle

\* the callback of startHealthMonitor, and forceReconnect() when the link is stale
WsHealthCheck ==
    /\ healthCheckTimer
    /\ healthDue
    /\ IF ~PongStale(sincePong)
       THEN /\ healthDue' = FALSE
            /\ UNCHANGED <<eventClient, subscription, trackedWallet, reconnectTimer,
                           isReconnecting, healthCheckTimer, wsConnecting, wsLive>>
       ELSE IF isReconnecting
       THEN /\ healthCheckTimer' = FALSE
            /\ healthDue' = FALSE
            /\ UNCHANGED <<eventClient, subscription, trackedWallet, reconnectTimer,
                           isReconnecting, wsConnecting, wsLive>>
       ELSE CloseThenInitialize
    /\ UNCHANGED <<isFirstSnapshot, reconnectAttempts, sincePong, fillQueue, wsFirstBatch,
                   wsBatchLog, wsFails, wsAlerts, wsStarted, wsShutdown>>
    /\ UNCHANGED strayVars
    /\ PollIdle

\* the exchange delivers a batch: handleFills.  The first batch of a
\* subscription is flagged as a snapshot by the exchange.
WsDeliver ==
    /\ wsLive
    /\ Len(wsBatchLog) < MaxBatches
    /\ \E isSnapshot \in (IF wsFirstBatch THEN {TRUE} ELSE BOOLEAN) :
        /\ wsBatchLog' = Append(wsBatchLog, [first |-> wsFirstBatch, isSnapshot |-> isSnapshot])
        /\ IF DiscardsBatch(isSnapshot, isFirstSnapshot)
           THEN /\ isFirstSnapshot' = FALSE
                /\ UNCHANGED fillQueue
           ELSE /\ fillQueue' = Append(fillQueue, [first |-> wsFirstBatch])
                /\ UNCHANGED isFirstSnapshot
    /\ wsFirstBatch' = FALSE
    /\ UNCHANGED <<eventClient, subscription, trackedWallet, reconnectAttempts,
                   reconnectTimer, isReconnecting, healthCheckTimer, healthDue, sincePong,
                   wsConnecting, wsLive, wsFails, wsAlerts, wsStarted, wsShutdown>>
    /\ UNCHANGED strayVars
    /\ PollIdle

\* the owner's close() at shutdown
WsClose ==
    /\ wsStarted
    /\ ~wsShutdown
    /\ wsShutdown' = TRUE
    /\ CloseConnection
    /\ eventClient' = FALSE
    /\ UNCHANGED <<trackedWallet, isFirstSnapshot, reconnectAttempts, sincePong, fillQueue,
                   wsConnecting, wsFirstBatch, wsBatchLog, wsFails, wsAlerts, wsStarted>>
    /\ UNCHANGED strayVars
    /\ PollIdle

ConnectorNext ==
    \/ WsInitialize
    \/ WsConnectOk
    \/ WsConnectFail
    \/ WsReconnect
    \/ WsTick
    \/ WsPong
    \/ WsHealthCheck
    \/ WsDeliver
    \/ WsClose
    \/ WsLateAnswer

-----------------------------------------------------------------------------
(* TelegramService.sendDriftAlert.  Times are in minutes; the service is
   enabled (a bot token and a chat id are configured). *)

Accounts == {"a1", "a2"}

\* DRIFT_ALERT_COOLDOWN_MS = 60 * 60 * 1000
DRIFT_ALERT_COOLDOWN == 60

\* minutes between two observations of Date.now()
AlertStep == 20

LastAlert_AnyAccount(times, accountId) ==
    IF DOMAIN times = {} THEN 0
    ELSE CHOOSE t \in {times[a] : a \in DOMAIN times} :
             \A a \in DOMAIN times : times[a] <= t

\* this.lastDriftAlertTimes.get(accountId) || 0
LastAlert(times, accountId) == IF accountId \in DOMAIN times THEN times[accountId] ELSE 0

\* now - lastAlert < this.DRIFT_ALERT_COOLDOWN_MS
CoolingDown(t, lastAlert) == t - lastAlert < DRIFT_ALERT_COOLDOWN

MapSet(m, k, v) == [x \in (DOMAIN m) \cup {k} |-> IF x = k THEN v ELSE m[x]]

AlertIdle == UNCHANGED <<gwVars, envVars, acctVars, pollVars, wsVars, storeVars, detVars, sizeVars, strayVars, ctlVars, trailVars, copyVars>>

AlertClockTick ==
    /\ alertNow + AlertStep <= DRIFT_ALERT_COOLDOWN + MaxAlertTime * AlertStep
    /\ alertNow' = alertNow + AlertStep
    /\ UNCHANGED <<lastDriftAlertTimes, alertCalls>>
    /\ AlertIdle

\* sendDriftAlert(accountId, driftReport): the early return inside the
\* cooldown, else the timestamp is recorded and the message goes out
SendDriftAlert(accountId) ==
    /\ Len(alertCalls) < MaxAlertCalls
    /\ LET sent == ~CoolingDown(alertNow, LastAlert(lastDriftAlertTimes, accountId))
       IN  /\ lastDriftAlertTimes' =
                 IF sent THEN MapSet(lastDriftAlertTimes, accountId, alertNow)
                 ELSE lastDriftAlertTimes
           /\ alertCalls' = Append(alertCalls,
                                   [accountId |-> accountId, at |-> alertNow, sent |-> sent])
    /\ UNCHANGED alertNow
    /\ AlertIdle

-----------------------------------------------------------------------------
(* DriftDetectorService.detect applied to one pair of position lists *)

DetectInput(T, U, tBal, uBal) ==
    [ trackedPositions |-> T, userPositions |-> U, trackedBalance |-> tBal, userBalance |-> uBal ]

\* tracked BTC: absent, dust (notional 9), exactly at the dust threshold
\* (notional 10), or 100 / 200 of notional, at a loss, flat or in profit
DetTrackedBTC ==
    {NoPos, Position("long", 1, 9, 9)}
        \cup { Position(sd, sz, e, 10) : sd \in {"long", "short"}, sz \in {1, 10, 20}, e \in {9, 10, 11} }

\* user BTC: absent or 90..120 of notional, which against a tracked notional
\* of 100 is an allocation difference of 0 %, exactly 1 % or 2 % when both
\* balances are 1000
DetUserBTC ==
    {NoPos}
        \cup { Position(sd, sz, e, 10) : sd \in {"long", "short"}, sz \in {9, 10, 11, 12}, e \in {9, 11} }

DetTrackedETH == {NoPos, Position("short", 30, 10, 10)}

DetUserETH == {NoPos, Position("long", 5, 10, 12), Position("short", 1, 12, 9)}

DetBalances == {<<1000, 1000>>, <<1000, 2000>>}

DetIdle == UNCHANGED <<gwVars, envVars, acctVars, pollVars, wsVars, storeVars, alertVars, sizeVars, strayVars, ctlVars, trailVars, copyVars>>

DetInit ==
    /\ detPc = "ready"
    /\ \E tb \in DetTrackedBTC, ub \in DetUserBTC, te \in DetTrackedETH, ue \in DetUserETH,
          b \in DetBalances :
          detIn = DetectInput([c \in Coins |-> IF c = "BTC" THEN tb ELSE te],
                              [c \in Coins |-> IF c = "BTC" THEN ub ELSE ue], b[1], b[2])
    /\ detOut = <<>>

DetectCall ==
    /\ detPc = "ready"
    /\ detOut' = detect(detIn.trackedPositions, detIn.userPositions,
                        detIn.trackedBalance, detIn.userBalance)
    /\ detPc' = "called"
    /\ UNCHANGED detIn
    /\ DetIdle

\* the report is handed to the caller: hasDrift = drifts.length > 0
DetectReturn ==
    /\ detPc = "called"
    /\ detPc' = IF Len(detOut) > 0 THEN "drift" ELSE "aligned"
    /\ UNCHANGED <<detIn, detOut>>
    /\ DetIdle

-----------------------------------------------------------------------------
(* IEEE 754 double precision, as far as validateOrderSize needs it.  A
   natural number is a sequence of 12-bit limbs, most significant first,
   without leading zeros; a positive double is m * 2^e with m of 53 bits. *)

\* three hex digits
LimbBits == 3 * 4

LimbBase == 2 ^ LimbBits

Zeros(k) == [i \in 1..k |-> 0]

RECURSIVE Norm(_)
Norm(b) == IF b = <<>> THEN <<>> ELSE IF b[1] # 0 THEN b ELSE Norm(Tail(b))

RECURSIVE FromInt(_)
FromInt(n) == IF n = 0 THEN <<>> ELSE Append(FromInt(n \div LimbBase), n % LimbBase)

RECURSIVE ToInt(_)
ToInt(b) ==
    IF b = <<>> THEN 0 ELSE LimbBase * ToInt(SubSeq(b, 1, Len(b) - 1)) + b[Len(b)]

Max(a, b) == IF a > b THEN a ELSE b

\* limb k of b counted from the least significant one, 0 beyond its length
LimbAt(b, k) == IF k <= Len(b) THEN b[Len(b) + 1 - k] ELSE 0

\* bit k of b, bit 0 the least significant
BitOf(b, k) == (LimbAt(b, k \div LimbBits + 1) \div (2 ^ (k % LimbBits))) % 2

BitLen(b) ==
    IF b = <<>> THEN 0
    ELSE (Len(b) - 1) * LimbBits
           + (CHOOSE k \in 1..LimbBits : 2 ^ (k - 1) <= b[1] /\ b[1] < 2 ^ k)

Less(a, b) ==
    \/ Len(a) < Len(b)
    \/ /\ Len(a) = Len(b)
       /\ \E i \in 1..Len(a) : a[i] < b[i] /\ \A j \in 1..(i - 1) : a[j] = b[j]

BigAdd(a, b) ==
    LET n == Max(Len(a), Len(b)) + 1
        carry[k \in 0..n] ==
            IF k = 0 THEN 0 ELSE (LimbAt(a, k) + LimbAt(b, k) + carry[k - 1]) \div LimbBase
    IN  Norm([i \in 1..n |->
                (LimbAt(a, n + 1 - i) + LimbAt(b, n + 1 - i) + carry[n - i]) % LimbBase])

\* a - b for a >= b
BigSub(a, b) ==
    LET n == Len(a)
        borrow[k \in 0..n] ==
            IF k = 0 THEN 0
            ELSE IF LimbAt(a, k) - LimbAt(b, k) - borrow[k - 1] < 0 THEN 1 ELSE 0
    IN  Norm([i \in 1..n |->
                (LimbAt(a, n + 1 - i) - LimbAt(b, n + 1 - i) - borrow[n - i] + LimbBase)
                    % LimbBase])

\* n * a for a machine integer n < 2^18
MulSmall(n, a) ==
    LET len == Len(a) + 2
        carry[k \in 0..len] ==
            IF k = 0 THEN 0 ELSE (LimbAt(a, k) * n + carry[k - 1]) \div LimbBase
    IN  Norm([i \in 1..len |->
                (LimbAt(a, len + 1 - i) * n + carry[len - i]) % LimbBase])

\* b * 2^x
ShiftLeft(b, x) == Norm(MulSmall(2 ^ (x % LimbBits), b) \o Zeros(x \div LimbBits))

\* b \div 2^x
ShiftRight(b, x) ==
    LET c == SubSeq(b, 1, Len(b) - x \div LimbBits)
        s == x % LimbBits
    IN  Norm([i \in 1..Len(c) |->
                (IF i = 1 THEN 0 ELSE (c[i - 1] % (2 ^ s)) * (2 ^ (LimbBits - s)))
                    + c[i] \div (2 ^ s)])

\* one digit of the long division: the d with d * den <= r < (d + 1) * den,
\* looked for at and just below the estimate from the leading limbs (den has
\* its top bit set, so the estimate is at most 2 too large)
DivDigit(r, den) ==
    LET top == IF Len(r) > Len(den) THEN r[1] * LimbBase + r[2]
               ELSE IF Len(r) = Len(den) THEN r[1] ELSE 0
        est == Min(LimbBase - 1, top \div den[1])
    IN  CHOOSE d \in Max(0, est - 2)..est :
            /\ ~Less(r, MulSmall(d, den))
            /\ Less(BigSub(r, MulSmall(d, den)), den)

\* long division of num by den from limb i of num on
RECURSIVE DivLoop(_, _, _, _, _)
DivLoop(i, num, q, r, den) ==
    IF i > Len(num) THEN [q |-> Norm(q), r |-> r]
    ELSE LET r1 == Norm(r \o <<num[i]>>)
             d == DivDigit(r1, den)
         IN  DivLoop(i + 1, num, q \o <<d>>, BigSub(r1, MulSmall(d, den)), den)

\* quotient of num by den and the remainder, the latter scaled by the power
\* of two that brings the top bit of den to the top of its limb
DivMod(num, den) ==
    LET s == (LimbBits - (BitLen(den) % LimbBits)) % LimbBits
    IN  DivLoop(1, ShiftLeft(num, s), <<>>, <<>>, ShiftLeft(den, s))

\* hex digits, three to a limb
HexLimbs(h) ==
    Norm([i \in 1..(Len(h) \div 3) |-> 256 * h[3 * i - 2] + 16 * h[3 * i - 1] + h[3 * i]])

\* the double with the given 53-bit significand (in hex digits) and exponent
Double(h, e) == [m |-> HexLimbs(h), e |-> e]

\* q * 2^e (plus something below the last bit of q when sticky) rounded to a
\* double: round to nearest, ties to even
RoundTo53(q, sticky, e) ==
    LET len == BitLen(q)
        x == len - 53
    IN  IF x <= 0 THEN [m |-> ShiftLeft(q, 0 - x), e |-> e + x]
        ELSE LET top == ShiftRight(q, x)
                 half == BitOf(q, x - 1) = 1
                 below == sticky \/ \E k \in 0..(x - 2) : BitOf(q, k) = 1
                 up == half /\ (below \/ BitOf(top, 0) = 1)
                 m == IF up THEN BigAdd(top, <<1>>) ELSE top
             IN  IF BitLen(m) = 54 THEN [m |-> ShiftRight(m, 1), e |-> e + x + 1]
                 ELSE [m |-> m, e |-> e + x]

\* n / p
DoubleDivInt(n, p) ==
    LET num == FromInt(n)
        k == 55 + 53 - BitLen(num)
        d == DivMod(ShiftLeft(num, k), p.m)
    IN  RoundTo53(d.q, d.r # <<>>, 0 - k - p.e)

\* n * p
DoubleMulInt(n, p) == RoundTo53(MulSmall(n, p.m), FALSE, p.e)

\* d < n
DoubleLessInt(d, n) ==
    IF d.e >= 0 THEN Less(ShiftLeft(d.m, d.e), FromInt(n))
    ELSE Less(d.m, ShiftLeft(FromInt(n), 0 - d.e))

\* Math.ceil(d), for a result that fits a machine integer
CeilToInt(d) ==
    IF d.e >= 0 THEN ToInt(ShiftLeft(d.m, d.e))
    ELSE IF 0 - d.e >= 53 THEN 1
    ELSE ToInt(ShiftRight(d.m, 0 - d.e))
           + (IF \E k \in 0..(0 - d.e - 1) : BitOf(d.m, k) = 1 THEN 1 ELSE 0)

-----------------------------------------------------------------------------
(* HyperliquidService.validateOrderSize for a coin with szDecimals = 0 and
   a whole size: toFixed(0) and parseFloat leave the size as it is and
   step = Math.pow(10, -0) = 1 *)

\* `minOrderValue?: number` not passed
Undefined == 0 - 1

\* prices as the doubles that the literals 0.044, 0.05, 0.088 and 20.5 parse to
Price044 == Double(<<0, 1, 6,  8, 7, 2,  11, 0, 2,  0, 12, 4,  9, 11, 10>>, 0 - 57)

Price050 == Double(<<0, 1, 9,  9, 9, 9,  9, 9, 9,  9, 9, 9,  9, 9, 10>>, 0 - 57)

Price088 == Double(<<0, 1, 6,  8, 7, 2,  11, 0, 2,  0, 12, 4,  9, 11, 10>>, 0 - 56)

Price2050 == Double(<<0, 1, 4,  8, 0, 0,  0, 0, 0,  0, 0, 0,  0, 0, 0>>, 0 - 48)

VsPrices == {Price044, Price050, Price088, Price2050}

VsSizes == {1, 100, 125, 250, 300}

VsMinOrderValues == {Undefined, 0, 10, 11}

VsGlobalMinOrderValues == {10, 11}

\* minOrderValue ?? this.globalMinOrderValue
ApplicableMin(minOrderValue, globalMinOrderValue) ==
    IF minOrderValue = Undefined THEN globalMinOrderValue ELSE minOrderValue

\* orderValue < minValue, with orderValue = parsedSize * price
ValueBelow(parsedSize, price, minValue) ==
    IF parsedSize = 0 THEN 0 < minValue
    ELSE DoubleLessInt(DoubleMulInt(parsedSize, price), minValue)

\* the size validateOrderSize returns
validateOrderSizeFloat(size, price, minOrderValue, globalMinOrderValue) ==
    LET minValue == ApplicableMin(minOrderValue, globalMinOrderValue)
    IN  IF ValueBelow(size, price, minValue)
        THEN CeilToInt(DoubleDivInt(minValue, price))
        ELSE size

VsIdle ==
    UNCHANGED <<gwVars, envVars, acctVars, pollVars, wsVars, storeVars, alertVars, detVars,
                strayVars, ctlVars, trailVars, copyVars>>

VsInput(size, price, minOrderValue, globalMinOrderValue) ==
    [ size |-> size, price |-> price, minOrderValue |-> minOrderValue,
      globalMinOrderValue |-> globalMinOrderValue ]

VsQuiet ==
    /\ vsPc = "idle"
    /\ vsIn = VsInput(0, Price2050, Undefined, 0)
    /\ vsOut = 0

VsInit ==
    /\ vsPc = "ready"
    /\ \E sz \in VsSizes, pr \in VsPrices, mv \in VsMinOrderValues, gv \in VsGlobalMinOrderValues :
          vsIn = VsInput(sz, pr, mv, gv)
    /\ vsOut = 0

ValidateOrderSize ==
    /\ vsPc = "ready"
    /\ vsOut' = validateOrderSizeFloat(vsIn.size, vsIn.price, vsIn.minOrderValue,
                                       vsIn.globalMinOrderValue)
    /\ vsPc' = "done"
    /\ UNCHANGED vsIn
    /\ VsIdle

-----------------------------------------------------------------------------
(* TelegramService: the timed pause.  Times are in hours. *)

\* `4 * 60 * 60 * 1000` ms
AUTO_RESUME_DELAY == 4

CtlIdle ==
    UNCHANGED <<gwVars, envVars, pollVars, wsVars, alertVars, detVars, sizeVars, strayVars,
                trailVars, copyVars>>

CtlInit ==
    /\ resumeTimers = <<>>
    /\ ctlNow = 0
    /\ pausedBy = IF tradingPaused THEN "command" ELSE "none"

\* pauseTradingFor4Hours: the pause is set and a timeout armed; the state is
\* not saved and no earlier timeout is cleared
PauseTradingFor4Hours ==
    /\ Len(resumeTimers) < MaxTimers
    /\ tradingPaused' = TRUE
    /\ pausedBy' = "timer"
    /\ resumeTimers' = Append(resumeTimers, ctlNow + AUTO_RESUME_DELAY)
    /\ UNCHANGED <<pausedSymbols, drawdownPausedSymbols, hrefThreshold, takeProfitThreshold,
                   positionSizeMultiplier, ctlNow, storeVars>>
    /\ CtlIdle

\* `if (state.tradingPaused)` of the timeout callback
AutoResumeClears(paused, by) == paused

\* the callback of the oldest pending timeout runs
AutoResume ==
    /\ resumeTimers # <<>>
    /\ Head(resumeTimers) <= ctlNow
    /\ resumeTimers' = Tail(resumeTimers)
    /\ IF AutoResumeClears(tradingPaused, pausedBy)
       THEN tradingPaused' = FALSE /\ pausedBy' = "none"
       ELSE UNCHANGED <<tradingPaused, pausedBy>>
    /\ UNCHANGED <<pausedSymbols, drawdownPausedSymbols, hrefThreshold, takeProfitThreshold,
                   positionSizeMultiplier, ctlNow, storeVars>>
    /\ CtlIdle

\* an hour passes; a timeout that is due runs first
ControlTick ==
    /\ ctlNow < MaxControlTime
    /\ IF resumeTimers = <<>> THEN TRUE ELSE Head(resumeTimers) > ctlNow
    /\ ctlNow' = ctlNow + 1
    /\ UNCHANGED <<acctVars, storeVars, resumeTimers, pausedBy>>
    /\ CtlIdle

ControlNext ==
    \/ \E paused \in BOOLEAN : SetTradingPaused(paused)
    \/ PauseTradingFor4Hours
    \/ AutoResume
    \/ ControlTick

-----------------------------------------------------------------------------
(* checkTakeProfitMode over successive polls of one position.  The account
   balance is 1000 and the position is 1 coin long from 1000, so that a mark
   price of 1000 + p is a profit of p tenths of a percent of the balance. *)

TrailBalance == 1000

TrailEntry == 1000

\* profits of 2.5 %, 2.7 %, 3.5 % and 4 %
TrailProfits == {25, 27, 35, 40}

\* thresholds the operator can choose: dynamic, off, 3 %
TrailThresholds == {0 - 1, 0, 3}

TrailPosition(profit) == Position("long", 1, TrailEntry, TrailEntry + profit)

TrailIdle ==
    UNCHANGED <<gwVars, envVars, pollVars, wsVars, alertVars, detVars, sizeVars, strayVars,
                ctlVars, copyVars>>

TrailQuiet ==
    /\ tpObserved = <<>>
    /\ tpClosed = FALSE

\* TelegramService.setTakeProfitThreshold: the threshold is stored and the
\* state saved; what the polls saw under the old threshold no longer counts
SetTakeProfitThreshold(threshold) ==
    /\ takeProfitThreshold # threshold
    /\ takeProfitThreshold' = threshold
    /\ stored' = StoredOf(tradingPaused, hrefThreshold, pausedSymbols, drawdownPausedSymbols,
                          positionSizeMultiplier)
    /\ tpObserved' = <<>>
    /\ tpClosed' = FALSE
    /\ UNCHANGED <<tradingPaused, pausedSymbols, drawdownPausedSymbols, hrefThreshold,
                   positionSizeMultiplier, snapshot>>
    /\ TrailIdle

\* one poll: checkTakeProfitMode(userPositions, userValue) for the position
\* at its current mark price; a closed position is seen by no later poll
TrailPoll ==
    /\ ~tpClosed
    /\ Len(tpObserved) < MaxObservations
    /\ \E profit \in TrailProfits :
        LET pos == TrailPosition(profit)
        IN  /\ tpObserved' = Append(tpObserved, (unrealizedPnl(pos) * 1000) \div TrailBalance)
            /\ tpClosed' = (/\ TakeProfitActive(takeProfitThreshold)
                            /\ TakeProfitHit(pos, TrailBalance, takeProfitThreshold))
    /\ UNCHANGED <<acctVars, storeVars>>
    /\ TrailIdle

TrailNext ==
    \/ \E threshold \in TrailThresholds : SetTakeProfitThreshold(threshold)
    \/ TrailPoll

-----------------------------------------------------------------------------
(* ActionCopyService and IgnoreListService.  A position is a record of side
   and size; `none` stands for no position. *)

CopyNone == [side |-> "none", size |-> 0]

CopyPos(side, size) == [side |-> side, size |-> size]

\* positions of the tracked wallet and of the user, per coin
CopyTrackedStates == {CopyNone, CopyPos("long", 1), CopyPos("long", 2), CopyPos("short", 1)}

CopyUserStates == {CopyNone, CopyPos("long", 1)}

\* ActionCopyService.balanceRatio
balanceRatio == 2

\* scaleChangeAmount(amount, balanceRatio)
scaleChangeAmount(amount, ratio) == amount * ratio

\* MonitoringService.detectChanges for one coin whose position went from
\* `prev` to `cur`
PositionChange(coin, prev, cur) ==
    [ coin |-> coin,
      type |-> IF prev.side = "none" THEN "opened"
               ELSE IF cur.side = "none" THEN "closed"
               ELSE IF cur.side # prev.side THEN "reversed"
               ELSE IF cur.size > prev.size THEN "increased"
               ELSE "decreased",
      previousSide |-> prev.side, newSide |-> cur.side,
      previousSize |-> prev.size, newSize |-> cur.size ]

\* IgnoreListService.initialize(positions)
initialize(positions) ==
    [coin \in {c \in Coins : positions[c].side # "none"} |-> positions[coin].side]

\* IgnoreListService.isIgnored
isIgnored(list, coin) == coin \in DOMAIN list

\* IgnoreListService.removeFromIgnoreList
removeFromIgnoreList(list, coin) == MapDelete(list, {coin})

Recommendation(action, coin, side, size, ignored) ==
    [ action |-> action, coin |-> coin, side |-> side, size |-> size, isIgnored |-> ignored ]

\* the result of a getRecommendation call: the recommendation and the ignore
\* list it leaves
CopyResult(rec, list) == [rec |-> rec, list |-> list]

handleIgnoredPosition_KeepsClosed(change, list) ==
    IF change.type = "reversed"
    THEN CopyResult(Recommendation("open", change.coin, change.newSide,
                                   scaleChangeAmount(change.newSize, balanceRatio), FALSE),
                    removeFromIgnoreList(list, change.coin))
    ELSE CopyResult(Recommendation("ignore", change.coin, change.newSide, 0, TRUE), list)

\* ActionCopyService.handleIgnoredPosition
handleIgnoredPosition(change, list) ==
    IF change.type = "reversed"
    THEN CopyResult(Recommendation("open", change.coin, change.newSide,
                                   scaleChangeAmount(change.newSize, balanceRatio), FALSE),
                    removeFromIgnoreList(list, change.coin))
    ELSE IF change.type = "closed"
    THEN CopyResult(Recommendation("ignore", change.coin, list[change.coin], 0, TRUE),
                    removeFromIgnoreList(list, change.coin))
    ELSE CopyResult(Recommendation("ignore", change.coin, change.newSide, 0, TRUE), list)

\* ActionCopyService.handleTrackedPosition and the handlers it dispatches to
handleTrackedPosition(change, userPosition) ==
    LET has == userPosition.side # "none"
        scaledNew == scaleChangeAmount(change.newSize, balanceRatio)
        scaledDiff == scaleChangeAmount(Abs(change.newSize - change.previousSize), balanceRatio)
    IN  IF change.type = "opened"
        THEN Recommendation("open", change.coin, change.newSide, scaledNew, FALSE)
        ELSE IF change.type = "closed"
        THEN IF has
             THEN Recommendation("close", change.coin, userPosition.side, userPosition.size, FALSE)
             ELSE Recommendation("ignore", change.coin, change.newSide, 0, FALSE)
        ELSE IF change.type = "reversed"
        THEN Recommendation(IF has THEN "reverse" ELSE "open", change.coin, change.newSide,
                            scaledNew, FALSE)
        ELSE IF change.type = "increased"
        THEN IF has
             THEN Recommendation("add", change.coin, change.newSide, scaledDiff, FALSE)
             ELSE Recommendation("open", change.coin, change.newSide, scaledNew, FALSE)
        ELSE IF has
             THEN Recommendation("reduce", change.coin, change.newSide, scaledDiff, FALSE)
             ELSE Recommendation("ignore", change.coin, change.newSide, 0, FALSE)

\* ActionCopyService.getRecommendation
getRecommendation(change, userPosition, list) ==
    IF isIgnored(list, change.coin)
    THEN handleIgnoredPosition(change, list)
    ELSE CopyResult(handleTrackedPosition(change, userPosition), list)

CopyIdle ==
    UNCHANGED <<gwVars, envVars, acctVars, pollVars, wsVars, storeVars, alertVars, detVars,
                sizeVars, strayVars, ctlVars, trailVars>>

CopyQuiet ==
    /\ isFirstRun = TRUE
    /\ ignoreList = EmptyMap
    /\ copyTracked = [coin \in Coins |-> CopyNone]
    /\ copyUser = [coin \in Coins |-> CopyNone]
    /\ copyLog = <<>>

\* before the first poll: the tracked wallet holds any positions
CopyInit ==
    /\ isFirstRun = TRUE
    /\ ignoreList = EmptyMap
    /\ copyTracked \in [Coins -> CopyTrackedStates]
    /\ copyUser = [coin \in Coins |-> CopyNone]
    /\ copyLog = <<>>

\* monitor.ts, first poll: `ignoreListService.initialize(trackedPositions)`
CopyFirstPoll ==
    /\ isFirstRun
    /\ isFirstRun' = FALSE
    /\ ignoreList' = initialize(copyTracked)
    /\ UNCHANGED <<copyTracked, copyUser, copyLog>>
    /\ CopyIdle

\* monitor.ts, a later poll in which the tracked position of one coin has
\* changed: getRecommendation(change, userPositions)
CopyPoll ==
    /\ ~isFirstRun
    /\ Len(copyLog) < MaxChanges
    /\ \E coin \in Coins, user \in CopyUserStates :
       \E cur \in CopyTrackedStates \ {copyTracked[coin]} :
          LET change == PositionChange(coin, copyTracked[coin], cur)
              result == getRecommendation(change, user, ignoreList)
          IN  /\ copyTracked' = [copyTracked EXCEPT ![coin] = cur]
              /\ copyUser' = [copyUser EXCEPT ![coin] = user]
              /\ ignoreList' = result.list
              /\ copyLog' = Append(copyLog, [ change |-> change, rec |-> result.rec,
                                              wasIgnored |-> isIgnored(ignoreList, coin),
                                              left |-> DOMAIN result.list ])
    /\ UNCHANGED isFirstRun
    /\ CopyIdle

CopyNext ==
    \/ CopyFirstPoll
    \/ CopyPoll

-----------------------------------------------------------------------------
(* Initial states *)

NoPositions == [c \in Coins |-> NoPos]

Book(btc, eth) == [c \in Coins |-> IF c = "BTC" THEN btc ELSE eth]

Scenario(T, U, tBal, uBal) == [tracked |-> T, user |-> U, trackedValue |-> tBal, userValue |-> uBal]

\* What the exchange holds when monitoring starts.  The tracked wallet has
\* 2000 of account value, the user 1000, so a tracked size of 120 scales to 60.
Scenarios ==
    { \* BTC missing and favorable; ETH an orphan in profit
      Scenario(Book(Position("long", 120, 110, 100), NoPos),
               Book(NoPos, Position("long", 10, 90, 100)), 2000, 1000),
      \* BTC missing, unfavorable
      Scenario(Book(Position("long", 120, 90, 100), NoPos),
               NoPositions, 2000, 1000),
      \* BTC on the wrong side, favorable; ETH missing and favorable
      Scenario(Book(Position("short", 120, 90, 100), Position("long", 20, 110, 100)),
               Book(Position("long", 40, 95, 100), NoPos), 2000, 1000),
      \* BTC under-sized, favorable; ETH an orphan at a loss
      Scenario(Book(Position("long", 120, 110, 100), NoPos),
               Book(Position("long", 30, 105, 100), Position("short", 10, 90, 100)), 2000, 1000),
      \* BTC over-sized and in profit
      Scenario(Book(Position("long", 120, 110, 100), NoPos),
               Book(Position("long", 90, 90, 100), NoPos), 2000, 1000),
      \* BTC over-sized and at a loss; ETH missing and favorable
      Scenario(Book(Position("long", 120, 110, 100), Position("short", 20, 90, 100)),
               Book(Position("long", 90, 105, 100), NoPos), 2000, 1000),
      \* BTC one unit above target, at a loss, marked lower in the user's reply
      Scenario(Book(Position("long", 120, 110, 100), NoPos),
               Book(Position("long", 61, 105, 98), NoPos), 2000, 1000),
      \* BTC aligned
      Scenario(Book(Position("long", 120, 110, 100), NoPos),
               Book(Position("long", 60, 105, 100), NoPos), 2000, 1000),
      \* an unfunded user account
      Scenario(Book(Position("long", 120, 110, 100), NoPos),
               NoPositions, 2000, 0),
      \* BTC missing and favorable, the tracked loss exactly 3 % of its balance
      Scenario(Book(Position("long", 60, 101, 100), NoPos),
               NoPositions, 2000, 1000),
      \* nothing tracked; BTC 10 % in profit, ETH exactly 5 % in profit
      Scenario(NoPositions,
               Book(Position("long", 10, 90, 100), Position("short", 10, 105, 100)),
               2000, 1000),
      \* BTC under-sized, favorable, and 30 % in profit
      Scenario(Book(Position("long", 120, 110, 100), NoPos),
               Book(Position("long", 30, 90, 100), NoPos), 2000, 1000) }

StateOf(paused, tp, href, ps, dd, mult) ==
    [ tradingPaused |-> paused, takeProfitThreshold |-> tp, hrefThreshold |-> href,
      pausedSymbols |-> ps, drawdownPausedSymbols |-> dd, positionSizeMultiplier |-> mult ]

\* SubAccountState as loaded at startup
InitialStates ==
    { StateOf(FALSE, 0, 0, EmptyMap, EmptyMap, 2),
      StateOf(FALSE, 5, 0, EmptyMap, EmptyMap, 4),
      StateOf(TRUE, 5, 0, EmptyMap, EmptyMap, 4),
      StateOf(FALSE, 0, 3, [k \in {"BTC"} |-> 2], [k \in {"ETH"} |-> 5], 4),
      StateOf(FALSE, 0, 0, [k \in Coins |-> IF k = "BTC" THEN 2 ELSE 1],
              [k \in {"ETH"} |-> 5], 1) }

PollQuiet ==
    /\ tracked = NoPositions
    /\ exUser = NoPositions
    /\ trackedValue = 0
    /\ userValue = 0
    /\ now = 1
    /\ tradingPaused = FALSE
    /\ pausedSymbols = EmptyMap
    /\ drawdownPausedSymbols = EmptyMap
    /\ hrefThreshold = 0
    /\ takeProfitThreshold = 0
    /\ positionSizeMultiplier = 4
    /\ userBalance = 0
    /\ interval = FALSE
    /\ polls = 0
    /\ cyc = [c \in Slots |-> IdleFrame]

PollInit ==
    /\ \E sc \in Scenarios :
        /\ tracked = sc.tracked
        /\ exUser = sc.user
        /\ trackedValue = sc.trackedValue
        /\ userValue = sc.userValue
    /\ \E st \in InitialStates :
        /\ tradingPaused = st.tradingPaused
        /\ pausedSymbols = st.pausedSymbols
        /\ drawdownPausedSymbols = st.drawdownPausedSymbols
        /\ hrefThreshold = st.hrefThreshold
        /\ takeProfitThreshold = st.takeProfitThreshold
        /\ positionSizeMultiplier = st.positionSizeMultiplier
    /\ now = 1
    /\ userBalance = 0
    /\ interval = FALSE
    /\ polls = 0
    /\ cyc = [c \in Slots |-> IdleFrame]

Next ==
    \/ Start
    \/ TimerTick
    \/ \E c \in Slots : FetchDone(c)
    \/ \E c \in Slots : PollFails(c)
    \/ \E c \in Slots : RiskDone(c)
    \/ \E c \in Slots : TpAnswer(c)
    \/ \E c \in Slots : AlertDone(c)
    \/ \E c \in Slots : SyncAnswer(c)
    \/ \E paused \in BOOLEAN : SetTradingPaused(paused)
    \/ ClockTick

\* loadState at startup: the record and the state agree; nothing fetched yet
StoreInit ==
    /\ stored = StoredOf(tradingPaused, hrefThreshold, pausedSymbols, drawdownPausedSymbols,
                         positionSizeMultiplier)
    /\ snapshot = NoSnapshot

AlertInit ==
    /\ alertNow = DRIFT_ALERT_COOLDOWN
    /\ lastDriftAlertTimes = EmptyMap
    /\ alertCalls = <<>>

DetQuiet ==
    /\ detPc = "idle"
    /\ detIn = DetectInput(NoPositions, NoPositions, 0, 0)
    /\ detOut = <<>>

Init == GwInit /\ PollInit /\ WsInit /\ StoreInit /\ AlertInit /\ DetQuiet /\ VsQuiet /\ CtlInit /\ TrailQuiet /\ CopyQuiet

Spec == Init /\ [][Next]_vars

GatewayNext ==
    \/ GwCall
    \/ GwClosePosition
    \/ GwPositionsAnswer
    \/ GwAttemptAnswer
    \/ GwFallbackAnswer
    \/ GwNext

GatewayInit == GwInit /\ PollQuiet /\ WsInit /\ StoreInit /\ AlertInit /\ DetQuiet /\ VsQuiet /\ CtlInit /\ TrailQuiet /\ CopyQuiet

ConnectorInit == GwInit /\ PollQuiet /\ WsInit /\ StoreInit /\ AlertInit /\ DetQuiet /\ VsQuiet /\ CtlInit /\ TrailQuiet /\ CopyQuiet

AlertsInit == GwInit /\ PollQuiet /\ WsInit /\ StoreInit /\ AlertInit /\ DetQuiet /\ VsQuiet /\ CtlInit /\ TrailQuiet /\ CopyQuiet

AlertsNext ==
    \/ AlertClockTick
    \/ \E a \in Accounts : SendDriftAlert(a)

SpecAlerts == AlertsInit /\ [][AlertsNext]_vars

DetectInit == GwInit /\ PollQuiet /\ WsInit /\ StoreInit /\ AlertInit /\ DetInit /\ VsQuiet /\ CtlInit /\ TrailQuiet /\ CopyQuiet

SizingInit == GwInit /\ PollQuiet /\ WsInit /\ StoreInit /\ AlertInit /\ DetQuiet /\ VsInit /\ CtlInit /\ TrailQuiet /\ CopyQuiet

SizingNext == ValidateOrderSize

SpecSizing == SizingInit /\ [][SizingNext]_vars

DetectNext ==
    \/ DetectCall
    \/ DetectReturn

SpecDetect == DetectInit /\ [][DetectNext]_vars

SpecConnector == ConnectorInit /\ [][ConnectorNext]_vars

SpecGateway == GatewayInit /\ [][GatewayNext]_vars

ControlInit == GwInit /\ PollQuiet /\ WsInit /\ StoreInit /\ AlertInit /\ DetQuiet /\ VsQuiet /\ CtlInit /\ TrailQuiet /\ CopyQuiet

SpecControl == ControlInit /\ [][ControlNext]_vars

TrailInit == GwInit /\ PollQuiet /\ WsInit /\ StoreInit /\ AlertInit /\ DetQuiet /\ VsQuiet /\ CtlInit /\ TrailQuiet /\ CopyQuiet

SpecTrailing == TrailInit /\ [][TrailNext]_vars

CopyServiceInit == GwInit /\ PollQuiet /\ WsInit /\ StoreInit /\ AlertInit /\ DetQuiet /\ VsQuiet /\ CtlInit /\ TrailQuiet /\ CopyInit

SpecCopy == CopyServiceInit /\ [][CopyNext]_vars

-----------------------------------------------------------------------------
(* Claims about the gateway *)

\* C9: an attempt rejected with 'could not immediately match' is followed by
\* the next attempt while attempts remain; an attempt rejected with any other
\* error ends the call with that error and no further order is submitted.
C9_OtherRejectionAborts ==
    \A i \in 1..Len(gwResps) :
        /\ (i < MAX_RETRIES /\ gwResps[i] = "nomatch") => Len(gwOrders) > i
        /\ (i <= MAX_RETRIES /\ gwResps[i] = "reject") =>
              /\ Len(gwOrders) = i
              /\ gwPc = "done" /\ gwResult = "threw" /\ gwError = "reject"

\* C10: when all 3 attempts are rejected for lack of an immediate match,
\* exactly one fallback order follows, priced at 3 % slippage with
\* time-in-force FrontendMarket, and a call submits at most 4 orders.
C10_OneFallbackAtMaxSlippage ==
    /\ Len(gwOrders) <= 4
    /\ (Len(gwResps) >= 3 /\ \A i \in 1..3 : gwResps[i] = "nomatch") =>
          /\ Len(gwOrders) = 4
          /\ gwOrders[4].tif = "FrontendMarket"
          /\ gwOrders[4].p = formatPrice(gwIn.fillPrice, gwIn.isBuy, 30, gwIn.tickSize)
          /\ gwOrders[4].b = gwIn.isBuy
          /\ gwOrders[4].s = gwOrders[1].s

C10_Witness ==
    /\ gwPc = "done"
    /\ Len(gwResps) = 4
    /\ \A i \in 1..3 : gwResps[i] = "nomatch"
    /\ Len(gwOrders) = 4
    /\ ~gwIn.reduceOnly
    /\ gwOrders[3].p # gwOrders[4].p

\* C11: when the exchange still rejects the order after the retries are
\* exhausted, the call throws an error carrying the exchange's error text;
\* a call that returns carries a filled order.
C11_ExhaustedRejectionThrows ==
    /\ (gwPc = "done" /\ Len(gwResps) = MAX_RETRIES + 1
            /\ gwResps[MAX_RETRIES + 1] \in {"nomatch", "reject"}) =>
          (gwResult = "threw" /\ gwError = gwResps[MAX_RETRIES + 1])
    /\ gwResult = "returned" => gwStatus = "filled"

\* C12: a trading operation for a coin missing from the metadata cache, or
\* for an account without a wallet client, fails before any network request.
C12_FailsBeforeNetwork ==
    (gwPc = "done" /\ (~gwIn.hasWallet \/ ~gwIn.hasMeta)) =>
        /\ gwResult = "threw"
        /\ gwOrders = <<>>
        /\ gwFetches = 0

-----------------------------------------------------------------------------
(* Claims about the streaming connector *)

\* C13: the reconnect delay armed after the n-th consecutive connection
\* failure since the last successful connect is 5, 10, 30, 60, 300 s for
\* n = 1..5 and 300 s for every n > 5; a successful connect resets the count.
C13_BackoffSchedule ==
    /\ reconnectAttempts = wsFails
    /\ reconnectTimer # 0 =>
          /\ wsFails >= 1
          /\ reconnectTimer = CASE wsFails = 1 -> 5
                                [] wsFails = 2 -> 10
                                [] wsFails = 3 -> 30
                                [] wsFails = 4 -> 60
                                [] OTHER -> 300

C13_Witness ==
    /\ wsFails = 6
    /\ reconnectTimer = 300
    /\ wsBatchLog # <<>>

\* C14: after 10 consecutive failures no further connection attempt is made
\* and the reconnect-exhausted alert is raised exactly once; the failure
\* counter never exceeds 10.
C14_StopsAfterTenFailures ==
    /\ reconnectAttempts <= 10
    /\ wsAlerts <= 1
    /\ wsFails >= 10 => ~wsConnecting
    /\ wsAlerts = 1 => (wsFails = 10 /\ reconnectTimer = 0 /\ ~wsConnecting)

C14_Witness == wsAlerts = 1 /\ reconnectAttempts = 10 /\ reconnectTimer = 0

\* C15: while connected, a health check that finds no pong for more than
\* 45 s declares the connection stale and starts a forced reconnect: the
\* connection is closed and a new connection attempt begins.
C15_StaleLinkForcesReconnect ==
    [][(/\ healthCheckTimer /\ healthDue /\ ~healthDue'
        /\ wsShutdown' = wsShutdown
        /\ eventClient /\ subscription
        /\ sincePong > 45) =>
           /\ ~subscription'
           /\ ~wsLive'
           /\ ~healthCheckTimer'
           /\ wsConnecting']_vars

C15_Witness ==
    /\ wsConnecting
    /\ sincePong = 60
    /\ ~wsShutdown
    /\ ~subscription
    /\ ~healthCheckTimer

\* C16: the first batch delivered after every connect and every reconnect is
\* discarded; none of its fills reaches the fill queue.
C16_FirstBatchDiscarded ==
    /\ \A i \in 1..Len(fillQueue) : ~fillQueue[i].first
    /\ Len(fillQueue) = Cardinality({i \in 1..Len(wsBatchLog) : ~wsBatchLog[i].first
                                                                /\ ~wsBatchLog[i].isSnapshot})

C16_Witness ==
    /\ Cardinality({i \in 1..Len(wsBatchLog) : wsBatchLog[i].first}) = 2
    /\ ~isFirstSnapshot
    /\ fillQueue # <<>>

\* C17: once close() has been called the connector holds no subscription,
\* enqueues no further fill, arms no reconnect or health timer and makes no
\* further connection attempt.
C17_ClosedStaysClosed ==
    [][(wsShutdown /\ wsShutdown') =>
           /\ ~subscription'
           /\ fillQueue' = fillQueue
           /\ reconnectTimer' = 0
           /\ ~healthCheckTimer'
           /\ wsConnecting' => wsConnecting]_vars

-----------------------------------------------------------------------------
(* Claims about the poll cycle and the sync *)

\* the step of slot c in which syncFavorable is called and runs to its first
\* await or to its return
SyncCalled(c) == cyc[c].pc = "alert" /\ cyc'[c].pc # "alert" /\ cyc'[c].note # "error"

\* C1: a call of syncFavorable made while tradingPaused is true, or while the
\* recorded user balance is below 10, places no order and leaves every field
\* of the account state unchanged, whatever the drift report holds.
C1_PausedOrUnderfundedSyncIsNoop ==
    [][\A c \in Slots :
         (SyncCalled(c) /\ (tradingPaused \/ userBalance < 10)) =>
            /\ cyc'[c].pc = "done"
            /\ cyc'[c].log = cyc[c].log
            /\ exUser' = exUser
            /\ acctVars' = acctVars]_vars

C1_Witness ==
    \E c \in Slots :
        /\ cyc[c].pc = "done"
        /\ cyc[c].note = "paused"
        /\ tradingPaused
        /\ \E i \in 1..Len(detect(tracked, cyc[c].snap, trackedValue, userValue)) :
             LET d == detect(tracked, cyc[c].snap, trackedValue, userValue)[i]
             IN  d.driftType = "missing" /\ d.isFavorable
        /\ \A i \in 1..Len(cyc[c].log) : cyc[c].log[i].src # "sync"

\* C2: while tradingPaused is true no poll cycle sends an order to the
\* gateway, neither a drift-sync order nor a take-profit close.
C2_NoOrderWhilePaused ==
    [][\A c \in Slots : tradingPaused => Len(cyc'[c].log) <= Len(cyc[c].log)]_vars

\* C3: two poll cycles of the account never overlap.
C3_NoOverlappingPolls == Cardinality({c \in Slots : Active(cyc[c])}) <= 1

\* C4: at most one order call to the gateway is in flight for the account,
\* and the call for the next drift is issued only after the previous one has
\* completed.
C4_OneOrderCallInFlight ==
    /\ Cardinality({c \in Slots : InFlight(cyc[c])}) <= 1
    /\ \A c \in Slots : \A i \in 1..Len(cyc[c].log) :
          cyc[c].log[i].res = "pending" => (i = Len(cyc[c].log) /\ InFlight(cyc[c]))

Profitable(p) ==
    IF p.side = "long" THEN p.markPrice > p.entryPrice ELSE p.markPrice < p.entryPrice

\* C5: a reduce order for a size_mismatch drift is issued only when the
\* user's own position in that coin is profitable.
C5_ReduceOnlyInProfit ==
    \A c \in Slots : \A i \in 1..Len(cyc[c].log) :
        (cyc[c].log[i].why = "size_mismatch" /\ cyc[c].log[i].op = "reduce") =>
            Profitable(cyc[c].snap[cyc[c].log[i].coin])

\* the step of slot c in which the gateway call `o` of a side_mismatch settles
ReverseCallSettles(c) ==
    /\ cyc[c].pc = "sync"
    /\ cyc[c].log[Len(cyc[c].log)].why = "side_mismatch"
    /\ cyc'[c].log[Len(cyc[c].log)].res # "pending"

\* C6: for a side_mismatch the close is issued and awaited before the open;
\* if the close fails the open is never issued, and if the close succeeds
\* but the open fails the account holds no position in that coin.
C6_CloseBeforeOpen ==
    [][\A c \in Slots :
         ReverseCallSettles(c) =>
            LET n == Len(cyc[c].log)
                o == cyc[c].log[n]
                res == cyc'[c].log[n].res
                opens == /\ Len(cyc'[c].log) > n
                         /\ cyc'[c].log[n + 1].op = "open"
                         /\ cyc'[c].log[n + 1].coin = o.coin
                         /\ cyc'[c].log[n + 1].why = "side_mismatch"
            IN  /\ (o.op = "close" /\ res # "filled") => ~opens
                /\ o.op = "open" =>
                      /\ n > 1
                      /\ cyc[c].log[n - 1].op = "close"
                      /\ cyc[c].log[n - 1].coin = o.coin
                      /\ cyc[c].log[n - 1].res = "filled"
                /\ (o.op = "open" /\ res # "filled") => ~HasPos(exUser'[o.coin])]_vars

\* the drift of the filtered list that an order of the sync belongs to
DriftOf(f, o) == f.fav[CHOOSE k \in 1..Len(f.fav) : f.fav[k].coin = o.coin]

\* C7: the gateway operation of an executed drift is fixed by its type:
\* missing -> open on the tracked side with size scaledTargetSize; extra ->
\* close in full; same-side size_mismatch below target -> add (target -
\* current); above target -> reduce by (current - target).
C7_OperationByDriftType ==
    \A c \in Slots : \A i \in 1..Len(cyc[c].log) :
        LET o == cyc[c].log[i]
            d == DriftOf(cyc[c], o)
            current == cyc[c].snap[o.coin].size
        IN  o.src = "sync" =>
              /\ d.driftType = "missing" =>
                    /\ o.op = "open"
                    /\ o.side = tracked[o.coin].side
                    /\ o.size = d.scaledTargetSize
              /\ d.driftType = "extra" =>
                    /\ o.op = "close"
                    /\ closeSize(o.size, cyc[c].snap[o.coin]) = current
              /\ (d.driftType = "size_mismatch" /\ current < d.scaledTargetSize) =>
                    /\ o.op = "add"
                    /\ o.side = tracked[o.coin].side
                    /\ o.size = d.scaledTargetSize - current
              /\ (d.driftType = "size_mismatch" /\ current > d.scaledTargetSize) =>
                    /\ o.op = "reduce"
                    /\ o.size = current - d.scaledTargetSize

C7_Witness ==
    \E c \in Slots :
        /\ cyc[c].pc = "done"
        /\ \E i, j \in 1..Len(cyc[c].log) :
             /\ cyc[c].log[i].why = "missing" /\ cyc[c].log[i].op = "open"
             /\ cyc[c].log[i].size = 60 /\ cyc[c].log[i].res = "filled"
             /\ cyc[c].log[j].why = "extra" /\ cyc[c].log[j].op = "close"
             /\ cyc[c].log[j].res = "filled"

Attempted(f, k) ==
    \E i \in 1..Len(f.log) : f.log[i].src = "sync" /\ f.log[i].coin = f.fav[k].coin

\* C8: a gateway failure for one drift is caught; every later drift of the
\* filtered list is still attempted in the same cycle and syncFavorable
\* itself does not fail.
C8_FailureDoesNotBlockLaterDrifts ==
    \A c \in Slots :
        /\ cyc[c].pc = "sync" => \A k \in 1..cyc[c].idx : Attempted(cyc[c], k)
        /\ (cyc[c].pc = "done" /\ cyc[c].fav # <<>>) =>
              /\ cyc[c].note = "synced"
              /\ \A k \in 1..Len(cyc[c].fav) : Attempted(cyc[c], k)

C8_Witness ==
    \E c \in Slots :
        /\ cyc[c].pc = "done"
        /\ Len(cyc[c].fav) = 2
        /\ \E i, j \in 1..Len(cyc[c].log) :
             /\ i < j
             /\ cyc[c].log[i].src = "sync" /\ cyc[c].log[i].coin = cyc[c].fav[1].coin
             /\ cyc[c].log[i].res = "threw"
             /\ cyc[c].log[j].src = "sync" /\ cyc[c].log[j].coin = cyc[c].fav[2].coin
             /\ cyc[c].log[j].res = "filled"

\* the coin has a drift in the list the sync of frame f executes
InFav(f, coin) == \E k \in 1..Len(f.fav) : f.fav[k].coin = coin

\* the call of syncFavorable in slot c gets past its two early returns
SyncRuns(c) == SyncCalled(c) /\ ~tradingPaused /\ userBalance >= 10

\* C18: while a coin has an entry in drawdownPausedSymbols, syncFavorable
\* places no order for that coin and leaves the coin's drawdown entry and
\* its time-pause entry untouched.
C18_DrawdownPausedCoinUntouched ==
    [][\A c \in Slots : \A coin \in DOMAIN drawdownPausedSymbols :
         SyncCalled(c) =>
            /\ ~InFav(cyc'[c], coin)
            /\ \A i \in 1..Len(cyc'[c].log) :
                  cyc'[c].log[i].src = "sync" => cyc'[c].log[i].coin # coin
            /\ coin \in DOMAIN drawdownPausedSymbols'
            /\ drawdownPausedSymbols'[coin] = drawdownPausedSymbols[coin]
            /\ MapGet(pausedSymbols', coin) = MapGet(pausedSymbols, coin)]_vars

C18_Witness ==
    \E c \in Slots :
        /\ cyc[c].pc = "done"
        /\ cyc[c].note \in {"synced", "nofavorable"}
        /\ "ETH" \in DOMAIN drawdownPausedSymbols
        /\ MapGet(pausedSymbols, "ETH") # 0
        /\ now >= MapGet(pausedSymbols, "ETH")
        /\ \E i \in 1..Len(detect(tracked, cyc[c].snap, trackedValue, userValue)) :
             LET d == detect(tracked, cyc[c].snap, trackedValue, userValue)[i]
             IN  d.coin = "ETH" /\ d.isFavorable

\* C19: a coin's drawdownPausedSymbols entry is removed in the first poll in
\* which the tracked position's unrealized loss, as a percentage of the
\* tracked balance, exceeds the stored threshold.
C19_DrawdownAutoClears ==
    \A c \in Slots :
        (cyc[c].pc = "done" /\ cyc[c].note \in {"synced", "nofavorable"}) =>
            \A coin \in DOMAIN drawdownPausedSymbols :
                ~(/\ HasPos(tracked[coin])
                  /\ (0 - unrealizedPnl(tracked[coin])) * 100
                        > drawdownPausedSymbols[coin] * trackedValue)

\* C20: a favorable drift for a coin with pausedSymbols[coin] = T is skipped
\* by a sync that runs at now < T; at a sync with now >= T the drift is
\* eligible and the expired entry is removed on that read.
C20_TimePauseExpiresOnRead ==
    [][\A c \in Slots :
         SyncRuns(c) =>
            LET drifts == detect(tracked, cyc[c].snap, trackedValue, userValue)
            IN  \A i \in 1..Len(drifts) :
                  LET d == drifts[i]
                      T == MapGet(pausedSymbols, d.coin)
                  IN  (d.isFavorable /\ T # 0 /\ d.coin \notin DOMAIN drawdownPausedSymbols) =>
                        /\ now < T =>
                              /\ ~InFav(cyc'[c], d.coin)
                              /\ MapGet(pausedSymbols', d.coin) = T
                        /\ now >= T =>
                              /\ d.coin \notin DOMAIN pausedSymbols'
                              /\ InFav(cyc'[c], d.coin) <=>
                                    ~HrefHolds(d, hrefThreshold, trackedValue)]_vars

C20_Witness ==
    \E c \in Slots :
        /\ cyc[c].pc \in {"sync", "done"}
        /\ InFav(cyc[c], "BTC")
        /\ "BTC" \notin DOMAIN pausedSymbols
        /\ "ETH" \in DOMAIN pausedSymbols
        /\ hrefThreshold = 0
        /\ now = 2

\* the drift is one the filter lets through as far as the HREF test
ReachesHref(d) ==
    /\ d.isFavorable
    /\ d.coin \notin DOMAIN drawdownPausedSymbols
    /\ ~(MapGet(pausedSymbols, d.coin) # 0 /\ now < MapGet(pausedSymbols, d.coin))
    /\ IsEntryDrift(d)
    /\ HasPos(d.trackedPosition)

\* C21: with hrefThreshold = H > 0 an entry-type favorable drift is synced
\* when the tracked position's unrealized loss is at least H percent of the
\* tracked balance, and skipped when the loss is below H percent.
C21_HrefAllowsAtThreshold ==
    [][\A c \in Slots :
         (SyncRuns(c) /\ hrefThreshold > 0) =>
            LET drifts == detect(tracked, cyc[c].snap, trackedValue, userValue)
            IN  \A i \in 1..Len(drifts) :
                  LET d == drifts[i]
                      loss == 0 - unrealizedPnl(d.trackedPosition)
                  IN  ReachesHref(d) =>
                        /\ loss * 100 >= hrefThreshold * trackedValue => InFav(cyc'[c], d.coin)
                        /\ loss * 100 < hrefThreshold * trackedValue => ~InFav(cyc'[c], d.coin)]_vars

\* C22: after every mutation of the account's state the record in the
\* durable store equals the in-memory state, field for field.
C22_StoreMatchesState ==
    stored = StoredOf(tradingPaused, hrefThreshold, pausedSymbols, drawdownPausedSymbols,
                      positionSizeMultiplier)

\* C24: a poll cycle whose fetches fail ends with no order placed and leaves
\* the account state, the stored record, the sync balance and the snapshot as
\* they were; the next timer tick is not held back and starts a cycle from
\* scratch.
C24_FailedFetchChangesNothing ==
    [][\A c \in Slots :
         /\ (cyc[c].pc = "fetch" /\ cyc'[c].pc = "done") =>
               /\ cyc'[c].note = "error"
               /\ cyc'[c].log = <<>>
               /\ UNCHANGED <<acctVars, envVars, stored, snapshot, userBalance>>
               /\ (interval /\ polls < MaxPolls) => c \in FreeSlots'
         /\ (cyc[c].pc = "done" /\ cyc[c].note = "error" /\ cyc'[c].pc # "done") =>
               cyc'[c] = [IdleFrame EXCEPT !.pc = "fetch"]]_vars

C24_Witness ==
    /\ polls = 2
    /\ snapshot = NoSnapshot
    /\ userBalance = 0
    /\ cyc[1].pc = "fetch"
    /\ cyc[2].pc = "idle"

\* C29: every size the sync submits is the drift's target size (or the
\* difference between target and current size) times positionSizeMultiplier.
C29_SizesScaledByMultiplier ==
    \A c \in Slots : \A i \in 1..Len(cyc[c].log) :
        LET o == cyc[c].log[i]
            d == DriftOf(cyc[c], o)
            base == IF o.op = "open" THEN d.scaledTargetSize
                    ELSE Abs(d.scaledTargetSize - d.userPosition.size)
        IN  (o.src = "sync" /\ o.op \in {"open", "add", "reduce"}) =>
               o.size * 4 = base * positionSizeMultiplier

-----------------------------------------------------------------------------
(* Claims about the drift alert *)

\* C23: two alerts sent for the same account are at least one cooldown
\* apart, and a call is suppressed only by an alert of its own account sent
\* less than one cooldown before.
C23_OneAlertPerAccountPerHour ==
    \A j \in 1..Len(alertCalls) :
        /\ \A i \in 1..(j - 1) :
              ( /\ alertCalls[i].accountId = alertCalls[j].accountId
                /\ alertCalls[i].sent /\ alertCalls[j].sent ) =>
                 alertCalls[j].at - alertCalls[i].at >= DRIFT_ALERT_COOLDOWN
        /\ ~alertCalls[j].sent =>
              \E i \in 1..(j - 1) :
                 /\ alertCalls[i].accountId = alertCalls[j].accountId
                 /\ alertCalls[i].sent
                 /\ alertCalls[j].at - alertCalls[i].at < DRIFT_ALERT_COOLDOWN

C23_Witness ==
    /\ Len(alertCalls) = 4
    /\ alertCalls[1].accountId = "a1" /\ alertCalls[1].sent
    /\ alertCalls[2].accountId = "a1" /\ ~alertCalls[2].sent
    /\ alertCalls[3].accountId = "a2" /\ alertCalls[3].sent
    /\ alertCalls[3].at - alertCalls[1].at < DRIFT_ALERT_COOLDOWN
    /\ alertCalls[4].accountId = "a1" /\ alertCalls[4].sent
    /\ alertCalls[4].at - alertCalls[1].at = DRIFT_ALERT_COOLDOWN

-----------------------------------------------------------------------------
(* Claims about detect *)

DriftsOf(coin) == {i \in 1..Len(detOut) : detOut[i].coin = coin}

\* C25: a tracked position of notional >= 10 whose coin the user does not
\* hold gives exactly one drift for the coin, of type missing, whose
\* scaledTargetSize is (trackedNotional / trackedBalance) * userBalance /
\* markPrice.
C25_MissingDriftTarget ==
    detPc # "ready" =>
       \A coin \in Coins :
          LET t == detIn.trackedPositions[coin]
              u == detIn.userPositions[coin]
          IN  (HasPos(t) /\ notionalValue(t) >= 10 /\ ~HasPos(u)) =>
                 /\ Cardinality(DriftsOf(coin)) = 1
                 /\ \A i \in DriftsOf(coin) :
                       /\ detOut[i].driftType = "missing"
                       /\ detOut[i].scaledTargetSize * detIn.trackedBalance * t.markPrice
                             = notionalValue(t) * detIn.userBalance

C25_Witness ==
    /\ detPc # "ready"
    /\ detIn.trackedPositions["BTC"] = Position("long", 1, 11, 10)
    /\ detIn.userPositions["BTC"] = NoPos
    /\ detIn.userBalance = 2000
    /\ \E i \in DriftsOf("BTC") :
          detOut[i].driftType = "missing" /\ detOut[i].scaledTargetSize = 2

C27_OpenFavorability ==
    \A i \in 1..Len(detOut) :
        LET t == detOut[i].trackedPosition
        IN  detOut[i].driftType \in {"missing", "side_mismatch"} =>
              ( detOut[i].isFavorable <=>
                  \/ t.side = "long" /\ t.markPrice <= t.entryPrice
                  \/ t.side = "short" /\ t.markPrice >= t.entryPrice )

C27_Witness ==
    \E i, j \in 1..Len(detOut) :
        /\ detOut[i].driftType = "side_mismatch" /\ ~detOut[i].isFavorable
        /\ detOut[i].trackedPosition = Position("long", 10, 9, 10)
        /\ detOut[j].driftType = "missing" /\ detOut[j].isFavorable
        /\ detOut[j].trackedPosition = Position("short", 30, 10, 10)

\* C28: a user position whose coin has no tracked position gives exactly one
\* drift for the coin, of type extra and favorable, whatever its price or
\* size.
C28_OrphanIsExtraAndFavorable ==
    detPc # "ready" =>
       \A coin \in Coins :
          (HasPos(detIn.userPositions[coin]) /\ ~HasPos(detIn.trackedPositions[coin])) =>
             /\ Cardinality(DriftsOf(coin)) = 1
             /\ \A i \in DriftsOf(coin) :
                   /\ detOut[i].driftType = "extra"
                   /\ detOut[i].isFavorable
                   /\ detOut[i].userPosition = detIn.userPositions[coin]

C28_Witness ==
    /\ detPc # "ready"
    /\ detIn.userPositions["ETH"] = Position("short", 1, 12, 9)
    /\ detIn.userPositions["BTC"] = Position("long", 9, 11, 10)
    /\ \E i, j \in 1..Len(detOut) :
          /\ detOut[i].coin = "BTC" /\ detOut[i].driftType = "extra" /\ detOut[i].isFavorable
          /\ detOut[j].coin = "ETH" /\ detOut[j].driftType = "extra" /\ detOut[j].isFavorable

-----------------------------------------------------------------------------
(* Claims about the order size *)

\* C30: when the quantized size times the price is below the applicable
\* minimum (the override if passed, else the global one) the size returned is
\* the smallest multiple of the size step whose value reaches the minimum;
\* otherwise it is the quantized size.
C30_SmallestSizeReachingMinimum ==
    vsPc = "done" =>
       LET minValue == ApplicableMin(vsIn.minOrderValue, vsIn.globalMinOrderValue)
       IN  IF ValueBelow(vsIn.size, vsIn.price, minValue)
           THEN /\ ~ValueBelow(vsOut, vsIn.price, minValue)
                /\ ValueBelow(vsOut - 1, vsIn.price, minValue)
           ELSE vsOut = vsIn.size

-----------------------------------------------------------------------------
(* Claims about take-profit *)

\* the poll of frame f has left checkTakeProfitMode
PastTakeProfit(f) == f.pc \in {"alert", "sync"} \/ (f.pc = "done" /\ f.note # "error")

TpCoins(f) == {f.log[i].coin : i \in {j \in 1..Len(f.log) : f.log[j].src = "tp"}}

\* C31: with takeProfitThreshold = N > 0 a poll issues a full close for
\* every user position whose unrealized profit exceeds N % of the user
\* balance and for no position at or below N %; with threshold 0 it issues
\* no take-profit close.
C31_TakeProfitAboveThresholdOnly ==
    \A c \in Slots :
        LET f == cyc[c]
            over == {coin \in Coins :
                       /\ HasPos(f.snap[coin])
                       /\ unrealizedPnl(f.snap[coin]) * 100 > takeProfitThreshold * userValue}
        IN  /\ takeProfitThreshold = 0 => TpCoins(f) = {}
            /\ takeProfitThreshold > 0 =>
                  /\ TpCoins(f) \subseteq over
                  /\ PastTakeProfit(f) => TpCoins(f) = over
            /\ \A i \in 1..Len(f.log) :
                  f.log[i].src = "tp" => (f.log[i].op = "close" /\ f.log[i].size = 0)

C31_Witness ==
    \E c \in Slots :
        /\ takeProfitThreshold = 5
        /\ PastTakeProfit(cyc[c])
        /\ cyc[c].snap["ETH"] = Position("short", 10, 105, 100)
        /\ TpCoins(cyc[c]) = {"BTC"}

\* C40: a user position whose coin the tracked wallet holds with a notional
\* below the dust threshold (10) produces no drift of any type, neither
\* extra nor size_mismatch nor side_mismatch; the report has at most one
\* drift per coin.
C40_TrackedDustNoDrift ==
    detPc # "ready" =>
       /\ \A coin \in Coins : Cardinality(DriftsOf(coin)) <= 1
       /\ \A coin \in Coins :
             LET t == detIn.trackedPositions[coin]
                 u == detIn.userPositions[coin]
             IN  (HasPos(t) /\ notionalValue(t) < 10 /\ HasPos(u)) => DriftsOf(coin) = {}

C40_Witness ==
    /\ detPc # "ready"
    /\ detIn.trackedPositions["BTC"] = Position("long", 1, 9, 9)
    /\ detIn.userPositions["BTC"] = Position("short", 12, 11, 10)
    /\ DriftsOf("BTC") = {}
    /\ Len(detOut) > 0

\* the exact price of attempt k in thousandths of a cent: the reference price
\* shifted by 1.0 %, 1.5 %, 2.0 % for k = 1, 2, 3, up for a buy, down for a sell
ShiftedPrice(k) ==
    gwIn.fillPrice * (IF gwIn.isBuy THEN 1000 + (10 + 5 * (k - 1)) ELSE 1000 - (10 + 5 * (k - 1)))

C39_CloseWithinPosition ==
    (gwIn.reduceOnly /\ gwFetches = 1) =>
        \A i \in 1..Len(gwOrders) : gwOrders[i].s <= gwIn.positionSize

\* C38: within one poll cycle, a coin whose position was closed by
\* take-profit gets no order from the drift sync of the same cycle.
C38_NoSyncOrderAfterTakeProfit ==
    \A c \in Slots :
        LET log == cyc[c].log
        IN  \A i, j \in 1..Len(log) :
               (i < j /\ log[i].src = "tp" /\ log[i].res = "filled"
                      /\ log[j].src = "sync" /\ log[j].coin = log[i].coin)
                  => log[j].res # "filled"

\* C33: every order that the sync executed on the exchange has a trade
\* record passed to the logger by the time the cycle has ended, the close
\* half of a side_mismatch reversal included.
C33_ExecutedSyncTradeIsLogged ==
    \A c \in Slots :
        LET log == cyc[c].log
        IN  \A i \in 1..Len(log) :
               (cyc[c].pc = "done" /\ log[i].src = "sync" /\ log[i].res = "filled")
                  => log[i].rec # "none"

-----------------------------------------------------------------------------
(* Claims about the control commands, the trailing take-profit, the ignore
   list and the subscriptions of the connector *)

\* C36: a pause set by a pause command is never cleared by the auto-resume
\* timer of an earlier timed pause: while the pause in force is the one of a
\* command, a step in which a timer fires leaves tradingPaused true.
C36_CommandPauseOutlivesOldTimer ==
    [][(pausedBy = "command" /\ tradingPaused /\ Len(resumeTimers') < Len(resumeTimers))
          => tradingPaused']_vars

\* C32: with takeProfitThreshold = -1 the profit sequence 2.5 %, 4 %, 2.7 %
\* (peak 4 %, retracement 32.5 % >= 30 %) ends with the position closed, and
\* the sequence 2.5 %, 4 %, 3.5 % (retracement 12.5 %) leaves it open.
C32_DynamicTrailingCloses ==
    takeProfitThreshold = 0 - 1 =>
        /\ tpObserved = <<25, 40, 27>> => tpClosed
        /\ tpObserved = <<25, 40, 35>> => ~tpClosed

\* the calls before call i that took the coin of call i off the ignore list
Removals(i) ==
    {j \in 1..(i - 1) : /\ copyLog[j].change.coin = copyLog[i].change.coin
                        /\ copyLog[j].wasIgnored
                        /\ copyLog[j].change.type \in {"closed", "reversed"}}

\* C34: for a coin on the ignore list a closed change removes it and yields
\* no trade, a reversed change removes it and yields an open of the new side,
\* any other change keeps it on the list and yields no trade; the list holds
\* exactly the coins open at the first poll and not yet removed, and a coin
\* of that list gets open / close / add / reduce / reverse recommendations
\* only after its removal (or by the reversal that removes it).
C34_IgnoreListLifecycle ==
    \A i \in 1..Len(copyLog) :
        LET e == copyLog[i]
            coin == e.change.coin
        IN  /\ e.wasIgnored =>
                  /\ e.change.type = "closed" =>
                        (e.rec.action = "ignore" /\ e.rec.size = 0 /\ coin \notin e.left)
                  /\ e.change.type = "reversed" =>
                        (e.rec.action = "open" /\ e.rec.side = e.change.newSide
                            /\ e.rec.size > 0 /\ coin \notin e.left)
                  /\ e.change.type \notin {"closed", "reversed"} =>
                        (e.rec.action = "ignore" /\ e.rec.size = 0 /\ coin \in e.left)
            /\ (e.wasIgnored /\ e.rec.action # "ignore") => e.change.type = "reversed"
            /\ e.wasIgnored => Removals(i) = {}
            /\ (~e.wasIgnored /\ i = Len(copyLog)) => coin \notin DOMAIN ignoreList
            /\ \A other \in Coins \ {coin} :
                  (i = Len(copyLog)) => (other \in e.left <=> other \in DOMAIN ignoreList)

C34_Witness ==
    /\ Len(copyLog) = 3
    /\ \A i \in 1..3 : copyLog[i].change.coin = "BTC"
    /\ copyLog[1].wasIgnored /\ copyLog[1].change.type = "increased"
    /\ copyLog[1].rec.action = "ignore"
    /\ copyLog[2].wasIgnored /\ copyLog[2].change.type = "closed"
    /\ copyLog[2].rec.action = "ignore"
    /\ ~copyLog[3].wasIgnored /\ copyLog[3].change.type = "opened"
    /\ copyLog[3].rec.action = "open" /\ copyLog[3].rec.size = 4
    /\ "ETH" \in DOMAIN ignoreList

\* C37: at any time at most one fill subscription of the connector is live
\* and calls handleFills.
C37_OneLiveSubscription ==
    (IF wsLive THEN 1 ELSE 0) + wsOrphans <= 1

=============================================================================
